---- MODULE Spec2Model ----
(***************************************************************************)
(* Receipt analysis of smart-expenses-backend (src/routes/ai.ts): the      *)
(* numeric coercion asNumberOrNull, the normalization done by              *)
(* analyzeReceiptFromDataUrl, the split view built by toSplitReceipt, and   *)
(* the POST /api/ai/receipts/analyze-image handler.                         *)
(*                                                                         *)
(* JavaScript values are records [t |-> <typeof tag>, v |-> <payload>].     *)
(* Strings are sequences of one-character strings.  Numbers are decimal    *)
(* floating point, m * 10^e with m not divisible by 10, with the range of  *)
(* an IEEE-754 double (beyond 1.8e308 the value is +-Infinity).  -0 is not *)
(* told apart from 0: the code never divides and never prints a sign.      *)
(***************************************************************************)
EXTENDS Integers, Sequences, FiniteSets, TLC

VARIABLES
    cin,        \* SpecCoerce: the argument x of asNumberOrNull
    cout,       \* SpecCoerce: what asNumberOrNull(x) returned, or Pending
    doc,        \* SpecSplit: the value JSON.parse returned
    analysis,   \* SpecSplit: outcome of normalization + both views, or Pending
    pc,         \* Spec: per request, where the handler is
    req,        \* Spec: per request, the HTTP request received
    groqCalls,  \* Spec: per request, calls made to groq.chat.completions.create
    groqArg,    \* Spec: per request, the data URL sent to the vision service
    reply,      \* Spec: per request, what the vision service answered
    response,   \* Spec: per request, the HTTP response sent (or Pending)
    db,         \* the PostgreSQL tables the routes work on, committed rows
    calls,      \* per in-flight request of a multi-step handler, its progress
    out,        \* the HTTP exchanges completed so far / the last one
    now,        \* the server clock
    tokens      \* the JWTs issued so far

aiVars == <<cin, cout, doc, analysis, pc, req, groqCalls, groqArg, reply, response>>

storeVars == <<db, calls, out, now, tokens>>

vars == <<cin, cout, doc, analysis, pc, req, groqCalls, groqArg, reply, response,
          db, calls, out, now, tokens>>

Pending == [t |-> "pending", v |-> 0]

\* The receipt-analysis specifications do not touch the database.
StoreUnused ==
    /\ db = <<>>
    /\ calls = <<>>
    /\ out = Pending
    /\ now = 0
    /\ tokens = {}

-----------------------------------------------------------------------------
(* Bounds of the model *)

MaxStrLen == 4      \* longest generated string given to asNumberOrNull
MaxItems == 2       \* longest line_items array of a generated receipt
NumRequests == 2    \* concurrent analyze-image requests
MaxWords == 2       \* most words of a generated payment-method text
MaxPieces == 5      \* most pieces of a generated model text given to cleanJsonMaybe

-----------------------------------------------------------------------------
(* JavaScript numbers *)

RECURSIVE Pow10(_)
Pow10(n) == IF n <= 0 THEN 1 ELSE 10 * Pow10(n - 1)

Abs(i) == IF i < 0 THEN -i ELSE i

RECURSIVE NumDigits(_)
NumDigits(i) == IF Abs(i) < 10 THEN 1 ELSE 1 + NumDigits(Abs(i) \div 10)

\* The largest decimal exponent of a finite double (Number.MAX_VALUE is
\* 1.7976931348623157e308) and the smallest of a non-zero one (5e-324).
MaxExp10 == 308
MinExp10 == -324

PosInf == [k |-> "inf", m |-> 1, e |-> 0]
NegInf == [k |-> "inf", m |-> -1, e |-> 0]
NaN == [k |-> "nan", m |-> 0, e |-> 0]
Zero == [k |-> "fin", m |-> 0, e |-> 0]

RECURSIVE StripZeros(_, _)
StripZeros(m, e) ==
    IF m = 0 THEN Zero
    ELSE IF m % 10 = 0 THEN StripZeros(m \div 10, e + 1)
    ELSE [k |-> "fin", m |-> m, e |-> e]

\* The first two significant digits of a non-zero mantissa (18 for 1.8e308).
Lead2(m) ==
    IF NumDigits(m) = 1 THEN Abs(m) * 10
    ELSE Abs(m) \div Pow10(NumDigits(m) - 2)

\* The double nearest to m * 10^e: out of range is +-Infinity, too small is 0.
MakeNum(m, e) ==
    LET n == StripZeros(m, e)
        order == NumDigits(n.m) + n.e - 1
    IN  IF n.m = 0 THEN Zero
        ELSE IF order > MaxExp10 \/ (order = MaxExp10 /\ Lead2(n.m) >= 18)
             THEN (IF n.m > 0 THEN PosInf ELSE NegInf)
        ELSE IF order < MinExp10 THEN Zero
        ELSE n

\* Number.isFinite on a number
IsFinite(n) == n.k = "fin"

Order(n) == NumDigits(n.m) + n.e - 1

\* a + b.  A finite addend more than 16 decimal orders below the other one is
\* absorbed (a double carries under 17 significant digits).
Add(a, b) ==
    IF a.k = "nan" \/ b.k = "nan" THEN NaN
    ELSE IF a.k = "inf" /\ b.k = "inf" THEN (IF a.m = b.m THEN a ELSE NaN)
    ELSE IF a.k = "inf" THEN a
    ELSE IF b.k = "inf" THEN b
    ELSE IF a.m = 0 THEN b
    ELSE IF b.m = 0 THEN a
    ELSE IF Order(a) - Order(b) > 16 THEN a
    ELSE IF Order(b) - Order(a) > 16 THEN b
    ELSE LET e0 == IF a.e < b.e THEN a.e ELSE b.e
         IN  MakeNum(a.m * Pow10(a.e - e0) + b.m * Pow10(b.e - e0), e0)

Neg(a) == [a EXCEPT !.m = -a.m]

Sub(a, b) == Add(a, Neg(b))

\* a * b
Mul(a, b) ==
    IF a.k = "nan" \/ b.k = "nan" THEN NaN
    ELSE IF a.k = "inf" \/ b.k = "inf"
         THEN (IF a.m = 0 \/ b.m = 0 THEN NaN
               ELSE IF (a.m > 0) = (b.m > 0) THEN PosInf ELSE NegInf)
    ELSE MakeNum(a.m * b.m, a.e + b.e)

\* a > 0
GtZero(a) == a.k # "nan" /\ a.m > 0

\* Math.max(0, a)
MaxZero(a) == IF a.k = "nan" THEN NaN ELSE IF a.m > 0 THEN a ELSE Zero

-----------------------------------------------------------------------------
(* JavaScript values *)

Undefined == [t |-> "undefined", v |-> 0]
Null == [t |-> "null", v |-> 0]
Bool(b) == [t |-> "boolean", v |-> b]
Num(n) == [t |-> "number", v |-> n]
Str(s) == [t |-> "string", v |-> s]
Obj(o) == [t |-> "object", v |-> o]
Arr(a) == [t |-> "array", v |-> a]

\* {} : an object none of whose properties is defined
EmptyObj ==
    Obj([description |-> Undefined, quantity |-> Undefined,
         unit_price |-> Undefined, total |-> Undefined])

\* a whole number and a decimal as JavaScript number values
Whole(i) == Num(MakeNum(i, 0))
Dec(m, e) == Num(MakeNum(m, e))

\* x ?? y : x unless x is null or undefined
Nullish(x) == x.t \in {"null", "undefined"}
Coalesce(x, y) == IF Nullish(x) THEN y ELSE x

\* typeof x === "number" && Number.isFinite(x)
IsFiniteNumber(x) == x.t = "number" /\ IsFinite(x.v)

-----------------------------------------------------------------------------
(* asNumberOrNull *)

Digit == {"0", "1", "2", "3", "4", "5", "6", "7", "8", "9"}

DigitVal(c) ==
    CASE c = "0" -> 0 [] c = "1" -> 1 [] c = "2" -> 2 [] c = "3" -> 3
      [] c = "4" -> 4 [] c = "5" -> 5 [] c = "6" -> 6 [] c = "7" -> 7
      [] c = "8" -> 8 [] c = "9" -> 9

WhiteSpace == {" ", "\n", "\t", "\r"}

RECURSIVE TrimStart(_)
TrimStart(s) ==
    IF s # <<>> /\ Head(s) \in WhiteSpace THEN TrimStart(Tail(s)) ELSE s

RECURSIVE TrimEnd(_)
TrimEnd(s) ==
    IF s # <<>> /\ s[Len(s)] \in WhiteSpace
    THEN TrimEnd(SubSeq(s, 1, Len(s) - 1)) ELSE s

\* String.prototype.trim
Trim(s) == TrimEnd(TrimStart(s))

IsComma(c) == c = ","
NotComma(c) == ~IsComma(c)

\* s.replace(/,/g, "")
RemoveCommas(s) == SelectSeq(s, NotComma)

\* \d+ taken greedily from position i: the position after the last digit
RECURSIVE DigitsEnd(_, _)
DigitsEnd(s, i) ==
    IF i <= Len(s) /\ s[i] \in Digit THEN DigitsEnd(s, i + 1) ELSE i

\* MatchAt with the fraction group dropped from the pattern: /-?\d+/
MatchAt_NoFraction(s, i) ==
    LET d0 == IF s[i] = "-" THEN i + 1 ELSE i
        d1 == DigitsEnd(s, d0)
    IN  IF d1 = d0 THEN 0 ELSE d1

\* /-?\d+(\.\d+)?/ tried at position i: the position after the match, or 0
MatchAt(s, i) ==
    LET d0 == IF s[i] = "-" THEN i + 1 ELSE i
        d1 == DigitsEnd(s, d0)
        f1 == IF d1 <= Len(s) /\ s[d1] = "." THEN DigitsEnd(s, d1 + 1) ELSE d1
    IN  IF d1 = d0 THEN 0
        ELSE IF f1 > d1 + 1 THEN f1
        ELSE d1

\* normalized.match(/-?\d+(\.\d+)?/)[0]: the leftmost match, <<>> for no match
RECURSIVE FirstMatchFrom(_, _)
FirstMatchFrom(s, i) ==
    IF i > Len(s) THEN <<>>
    ELSE IF MatchAt(s, i) # 0 THEN SubSeq(s, i, MatchAt(s, i) - 1)
    ELSE FirstMatchFrom(s, i + 1)

FirstMatch(s) == FirstMatchFrom(s, 1)

RECURSIVE DigitsToInt(_)
DigitsToInt(ds) ==
    IF ds = <<>> THEN 0
    ELSE 10 * DigitsToInt(SubSeq(ds, 1, Len(ds) - 1)) + DigitVal(ds[Len(ds)])

IsDigitChar(c) == c \in Digit

\* Number(match[0]) for a string of the shape -?\d+(\.\d+)?
NumberOf(mt) ==
    LET neg == mt[1] = "-"
        body == IF neg THEN Tail(mt) ELSE mt
        dot == DigitsEnd(body, 1)
        fracLen == IF dot <= Len(body) THEN Len(body) - dot ELSE 0
        mant == DigitsToInt(SelectSeq(body, IsDigitChar))
    IN  MakeNum(IF neg THEN -mant ELSE mant, -fracLen)

\* asNumberOrNull without the Number.isFinite test on numbers
asNumberOrNull_NoFiniteCheck(x) ==
    IF x.t = "number" THEN x
    ELSE IF x.t = "string"
    THEN LET match == FirstMatch(RemoveCommas(Trim(x.v)))
         IN  IF match = <<>> THEN Null ELSE Num(NumberOf(match))
    ELSE Null

asNumberOrNull(x) ==
    IF IsFiniteNumber(x) THEN x
    ELSE IF x.t = "string"
    THEN LET s == Trim(x.v)
             normalized == RemoveCommas(s)
             match == FirstMatch(normalized)
         IN  IF s = <<>> THEN Null
             ELSE IF match = <<>> THEN Null
             ELSE IF IsFinite(NumberOf(match)) THEN Num(NumberOf(match))
             ELSE Null
    ELSE Null

-----------------------------------------------------------------------------
(* analyzeReceiptFromDataUrl: the normalization after JSON.parse *)

\* what a thrown exception leaves of a computation
Threw(msg) == [t |-> "threw", error |-> msg]

\* A string literal of the source, and a message of the runtime, are kept as
\* one symbol: nothing looks inside them.
Lit(text) == Str(<<text>>)

TypeErrorMsg == Lit("TypeError")

\* li.description, li.quantity, ... : a property of a primitive or of an array
\* element that does not have it is undefined
Prop(li) == IF li.t = "object" THEN li.v ELSE EmptyObj.v

\* the arrow function of parsed.line_items?.map(...) at one element
NormalizeLineItem(li) ==
    Obj([description |-> Coalesce(Prop(li).description, Str(<<>>)),
         quantity |-> asNumberOrNull(Prop(li).quantity),
         unit_price |-> asNumberOrNull(Prop(li).unit_price),
         total |-> asNumberOrNull(Prop(li).total)])

\* parsed.line_items?.map(...) throws a TypeError when line_items is neither
\* nullish nor an array (it has no map method), and when an element is null
\* (li.description reads a property of null)
NormalizeThrows(d) ==
    /\ ~Nullish(d.line_items)
    /\ \/ d.line_items.t # "array"
       \/ \E k \in 1..Len(d.line_items.v) : d.line_items.v[k].t = "null"

\* the parsed receipt after the defensive normalization
NormalizeParsed(d) ==
    [d EXCEPT
        !.subtotal = asNumberOrNull(d.subtotal),
        !.tax = asNumberOrNull(d.tax),
        !.total = asNumberOrNull(d.total),
        !.line_items =
            IF Nullish(d.line_items) THEN Arr(<<>>)
            ELSE Arr([k \in 1..Len(d.line_items.v) |->
                        NormalizeLineItem(d.line_items.v[k])])]

-----------------------------------------------------------------------------
(* toSplitReceipt *)

\* JavaScript truthiness, as in  x || y  and  !x
Truthy(x) ==
    CASE x.t \in {"undefined", "null"} -> FALSE
      [] x.t = "boolean" -> x.v
      [] x.t = "number" -> x.v.k # "nan" /\ x.v.m # 0
      [] x.t = "string" -> x.v # <<>>
      [] OTHER -> TRUE

ItemName == Str(<<"I", "t", "e", "m">>)
ItemsSubtotalName == Str(<<"I", "t", "e", "m", "s", " ", "S", "u", "b", "t", "o", "t", "a", "l">>)

\* SplitItem preferring quantity * unit price to the reported total
SplitItem_ComputedFirst(li, id) ==
    LET safeQty ==
            IF IsFiniteNumber(li.quantity) THEN li.quantity
            ELSE IF IsFiniteNumber(li.unit_price) THEN Whole(1)
            ELSE Null
        computed ==
            IF IsFiniteNumber(safeQty) /\ IsFiniteNumber(li.unit_price)
            THEN Num(Mul(safeQty.v, li.unit_price.v))
            ELSE Null
        total == Coalesce(computed, Coalesce(li.total, Whole(0)))
    IN  [id |-> id,
         name |-> IF Truthy(li.description) THEN li.description ELSE ItemName,
         qty |-> Coalesce(li.quantity, Undefined),
         unitPrice |-> Coalesce(li.unit_price, Undefined),
         total |-> IF IsFiniteNumber(total) THEN total ELSE Whole(0),
         assignedTo |-> <<>>]

\* the arrow function of parsed.line_items?.map(...) in toSplitReceipt
SplitItem(li, id) ==
    LET modelTotal == li.total
        safeQty ==
            IF IsFiniteNumber(li.quantity) THEN li.quantity
            ELSE IF IsFiniteNumber(li.unit_price) THEN Whole(1)
            ELSE Null
        computed ==
            IF IsFiniteNumber(safeQty) /\ IsFiniteNumber(li.unit_price)
            THEN Num(Mul(safeQty.v, li.unit_price.v))
            ELSE Null
        total ==
            Coalesce(modelTotal,
                Coalesce(computed,
                    IF IsFiniteNumber(li.unit_price) THEN li.unit_price
                    ELSE Whole(0)))
    IN  [id |-> id,
         name |-> IF Truthy(li.description) THEN li.description ELSE ItemName,
         qty |-> Coalesce(li.quantity, Undefined),
         unitPrice |-> Coalesce(li.unit_price, Undefined),
         total |-> IF IsFiniteNumber(total) THEN total ELSE Whole(0),
         assignedTo |-> <<>>]

\* items.reduce((s, i) => s + (Number.isFinite(i.total) ? i.total : 0), 0)
RECURSIVE SumTotals(_, _)
SumTotals(items, acc) ==
    IF items = <<>> THEN acc
    ELSE SumTotals(Tail(items),
            Add(acc, IF IsFiniteNumber(Head(items).total)
                     THEN Head(items).total.v ELSE Zero))

\* DerivedSubtotal without Math.max(0, ...)
DerivedSubtotal_NoClamp(parsed, items) ==
    IF IsFiniteNumber(parsed.subtotal) THEN parsed.subtotal
    ELSE IF GtZero(SumTotals(items, Zero)) THEN Num(SumTotals(items, Zero))
    ELSE IF IsFiniteNumber(parsed.total) /\ IsFiniteNumber(parsed.tax)
         THEN Num(Sub(parsed.total.v, parsed.tax.v))
    ELSE Undefined

\* DerivedSubtotal testing parsed.subtotal for truthiness, so that 0 falls
\* through to the later fallbacks
DerivedSubtotal_TruthySubtotal(parsed, items) ==
    IF IsFiniteNumber(parsed.subtotal) /\ Truthy(parsed.subtotal)
    THEN parsed.subtotal
    ELSE IF GtZero(SumTotals(items, Zero)) THEN Num(SumTotals(items, Zero))
    ELSE IF IsFiniteNumber(parsed.total) /\ IsFiniteNumber(parsed.tax)
         THEN Num(MaxZero(Sub(parsed.total.v, parsed.tax.v)))
    ELSE Undefined

\* the derived subtotal: parsed.subtotal -> items sum -> (total - tax)
DerivedSubtotal(parsed, items) ==
    LET subtotalFromItems == SumTotals(items, Zero)
        taxAmount == Coalesce(parsed.tax, Undefined)
        totalAmount == Coalesce(parsed.total, Undefined)
    IN  IF IsFiniteNumber(parsed.subtotal) THEN parsed.subtotal
        ELSE IF GtZero(subtotalFromItems) THEN Num(subtotalFromItems)
        ELSE IF IsFiniteNumber(totalAmount) /\ IsFiniteNumber(taxAmount)
             THEN Num(MaxZero(Sub(totalAmount.v, taxAmount.v)))
        ELSE Undefined

\* the split items of the line items; ids[k] is what the k-th call of
\* generateId returned
SplitItems(parsed, ids) ==
    IF Nullish(parsed.line_items) THEN <<>>
    ELSE [k \in 1..Len(parsed.line_items.v) |->
            SplitItem(parsed.line_items.v[k].v, ids[k])]

\* FinalItems replacing the items by the placeholder whenever a positive
\* subtotal is known
FinalItems_PlaceholderFirst(items, derivedSubtotal, ids) ==
    IF derivedSubtotal.t = "number" /\ GtZero(derivedSubtotal.v)
    THEN <<[id |-> ids[1],
            name |-> ItemsSubtotalName,
            qty |-> Undefined,
            unitPrice |-> Undefined,
            total |-> derivedSubtotal,
            assignedTo |-> <<>>]>>
    ELSE items

\* the placeholder is used only when there is no line item at all
FinalItems(items, derivedSubtotal, ids) ==
    IF Len(items) > 0 THEN items
    ELSE IF derivedSubtotal.t = "number" /\ GtZero(derivedSubtotal.v)
         THEN <<[id |-> ids[1],
                 name |-> ItemsSubtotalName,
                 qty |-> Undefined,
                 unitPrice |-> Undefined,
                 total |-> derivedSubtotal,
                 assignedTo |-> <<>>]>>
    ELSE items

\* toSplitReceipt giving an absent tax the default 0 in the split view
toSplitReceipt_ZeroTax(parsed, ids) ==
    LET items == SplitItems(parsed, ids)
        derivedSubtotal == DerivedSubtotal(parsed, items)
    IN  [merchant |-> Coalesce(parsed.merchant_name, Undefined),
         date |-> Coalesce(parsed.purchase_date, Undefined),
         currency |-> Coalesce(parsed.currency, Undefined),
         subtotal |-> derivedSubtotal,
         taxAmount |-> Coalesce(parsed.tax, Whole(0)),
         totalAmount |-> Coalesce(parsed.total, Undefined),
         items |-> FinalItems(items, derivedSubtotal, ids)]

toSplitReceipt(parsed, ids) ==
    LET items == SplitItems(parsed, ids)
        derivedSubtotal == DerivedSubtotal(parsed, items)
    IN  [merchant |-> Coalesce(parsed.merchant_name, Undefined),
         date |-> Coalesce(parsed.purchase_date, Undefined),
         currency |-> Coalesce(parsed.currency, Undefined),
         subtotal |-> derivedSubtotal,
         taxAmount |-> Coalesce(parsed.tax, Undefined),
         totalAmount |-> Coalesce(parsed.total, Undefined),
         items |-> FinalItems(items, derivedSubtotal, ids)]

-----------------------------------------------------------------------------
(* normalizePaymentMethod *)

UpperCase == <<"A", "B", "C", "D", "E", "F", "G", "H", "I", "J", "K", "L", "M", "N", "O", "P", "Q", "R", "S", "T", "U", "V", "W", "X", "Y", "Z">>
LowerCase == <<"a", "b", "c", "d", "e", "f", "g", "h", "i", "j", "k", "l", "m", "n", "o", "p", "q", "r", "s", "t", "u", "v", "w", "x", "y", "z">>

LowerOf(c) ==
    IF \E i \in 1..Len(UpperCase) : UpperCase[i] = c
    THEN LowerCase[CHOOSE i \in 1..Len(UpperCase) : UpperCase[i] = c]
    ELSE c

\* String.prototype.toLowerCase
ToLowerCase(s) == [i \in 1..Len(s) |-> LowerOf(s[i])]

\* String.prototype.includes
Includes(s, kw) ==
    \E i \in 1..(Len(s) - Len(kw) + 1) : SubSeq(s, i, i + Len(kw) - 1) = kw

PM_cash == Str(<<"c", "a", "s", "h">>)
PM_credit_card == Str(<<"c", "r", "e", "d", "i", "t", "_", "c", "a", "r", "d">>)
PM_debit_card == Str(<<"d", "e", "b", "i", "t", "_", "c", "a", "r", "d">>)
PM_mobile_payment == Str(<<"m", "o", "b", "i", "l", "e", "_", "p", "a", "y", "m", "e", "n", "t">>)
PM_bank_transfer == Str(<<"b", "a", "n", "k", "_", "t", "r", "a", "n", "s", "f", "e", "r">>)
PM_other == Str(<<"o", "t", "h", "e", "r">>)

\* raw.toLowerCase is not a function: a truthy value that is no string
PaymentMethodThrows(raw) == Truthy(raw) /\ raw.t # "string"

\* normalizePaymentMethod with the debit rule tried before the credit rule
normalizePaymentMethod_DebitFirst(raw) ==
    IF ~Truthy(raw) THEN Undefined
    ELSE LET value == Trim(ToLowerCase(raw.v))
         IN  IF Includes(value, <<"c", "a", "s", "h">>) THEN PM_cash
             ELSE IF Includes(value, <<"d", "e", "b", "i", "t">>) THEN PM_debit_card
             ELSE IF Includes(value, <<"c", "r", "e", "d", "i", "t">>) THEN PM_credit_card
             ELSE IF \/ Includes(value, <<"a", "p", "p", "l", "e", " ", "p", "a", "y">>)
                     \/ Includes(value, <<"g", "o", "o", "g", "l", "e", " ", "p", "a", "y">>)
                     \/ Includes(value, <<"w", "a", "l", "l", "e", "t">>)
                     \/ Includes(value, <<"m", "o", "b", "i", "l", "e">>)
                  THEN PM_mobile_payment
             ELSE IF Includes(value, <<"b", "a", "n", "k">>) \/ Includes(value, <<"t", "r", "a", "n", "s", "f", "e", "r">>)
                  THEN PM_bank_transfer
             ELSE PM_other

normalizePaymentMethod(raw) ==
    IF ~Truthy(raw) THEN Undefined
    ELSE LET value == Trim(ToLowerCase(raw.v))
         IN  IF Includes(value, <<"c", "a", "s", "h">>) THEN PM_cash
             ELSE IF Includes(value, <<"c", "r", "e", "d", "i", "t">>) THEN PM_credit_card
             ELSE IF Includes(value, <<"d", "e", "b", "i", "t">>) THEN PM_debit_card
             ELSE IF \/ Includes(value, <<"a", "p", "p", "l", "e", " ", "p", "a", "y">>)
                     \/ Includes(value, <<"g", "o", "o", "g", "l", "e", " ", "p", "a", "y">>)
                     \/ Includes(value, <<"w", "a", "l", "l", "e", "t">>)
                     \/ Includes(value, <<"m", "o", "b", "i", "l", "e">>)
                  THEN PM_mobile_payment
             ELSE IF Includes(value, <<"b", "a", "n", "k">>) \/ Includes(value, <<"t", "r", "a", "n", "s", "f", "e", "r">>)
                  THEN PM_bank_transfer
             ELSE PM_other

-----------------------------------------------------------------------------
(* The analyze-image handler after analyzeReceiptFromDataUrl returned *)

\* Number(process.env.AI_DEFAULT_CONFIDENCE || 0.85) with the variable unset
DEFAULT_CONFIDENCE == Dec(85, -2)

\* responseData: the flat view
FlatData(parsed) ==
    [vendor_name |-> Coalesce(parsed.merchant_name, Undefined),
     purchase_date |-> Coalesce(parsed.purchase_date, Undefined),
     total_amount |-> Coalesce(parsed.total, Undefined),
     tax_amount |-> Coalesce(parsed.tax, Undefined),
     currency |-> Coalesce(parsed.currency, Undefined),
     payment_method |-> normalizePaymentMethod(parsed.payment_method),
     suggested_category |-> Coalesce(parsed.category, Undefined),
     items |->
        IF Nullish(parsed.line_items) THEN <<>>
        ELSE [k \in 1..Len(parsed.line_items.v) |->
                LET item == parsed.line_items.v[k].v
                IN  [name |-> item.description,
                     quantity |-> Coalesce(item.quantity, Undefined),
                     unit_price |-> Coalesce(item.unit_price, Undefined),
                     total |-> Coalesce(item.total, Undefined)]],
     confidence |-> DEFAULT_CONFIDENCE]

\* Normalization, flat view and split view of the JSON object d; a TypeError
\* thrown on the way ends in the handler's catch block
AnalyzeParsed(d, ids) ==
    IF NormalizeThrows(d) THEN Threw(TypeErrorMsg)
    ELSE LET parsed == NormalizeParsed(d)
         IN  IF PaymentMethodThrows(parsed.payment_method)
             THEN Threw(TypeErrorMsg)
             ELSE [t |-> "done",
                   parsed |-> parsed,
                   data |-> FlatData(parsed),
                   split |-> toSplitReceipt(parsed, ids)]

-----------------------------------------------------------------------------
(* cleanJsonMaybe and JSON.parse *)

\* the backquote character (a TLA+ string cannot hold it)
BackQuote == "<backquote>"

HasPrefixAt(s, i, pre) ==
    i + Len(pre) - 1 <= Len(s) /\ SubSeq(s, i, i + Len(pre) - 1) = pre

FenceOpen == <<BackQuote, BackQuote, BackQuote, "j", "s", "o", "n">>
FenceClose == <<BackQuote, BackQuote, BackQuote>>

\* /```json\n?|\n?```/ tried at position i: the length of the match, or 0
FenceAt(s, i) ==
    IF HasPrefixAt(s, i, FenceOpen)
    THEN IF HasPrefixAt(s, i + Len(FenceOpen), <<"\n">>)
         THEN Len(FenceOpen) + 1 ELSE Len(FenceOpen)
    ELSE IF HasPrefixAt(s, i, <<"\n">> \o FenceClose) THEN Len(FenceClose) + 1
    ELSE IF HasPrefixAt(s, i, FenceClose) THEN Len(FenceClose)
    ELSE 0

\* raw.replace(/```json\n?|\n?```/g, ""): every match removed, left to right
RECURSIVE RemoveFences(_, _)
RemoveFences(s, i) ==
    IF i > Len(s) THEN <<>>
    ELSE IF FenceAt(s, i) > 0 THEN RemoveFences(s, i + FenceAt(s, i))
    ELSE <<s[i]>> \o RemoveFences(s, i + 1)

\* cleanJsonMaybe that trims and leaves the fences in place
cleanJsonMaybe_TrimOnly(raw) == Trim(raw)

cleanJsonMaybe(raw) == Trim(RemoveFences(raw, 1))

\* The JSON texts the vision service may answer, each one symbol of a string.
JsonLineItem(name, q, p, t) ==
    Obj([description |-> Str(name), quantity |-> q, unit_price |-> p,
         total |-> t])

EmptyDoc ==
    [merchant_name |-> Undefined, purchase_date |-> Undefined,
     subtotal |-> Undefined, tax |-> Undefined, total |-> Undefined,
     currency |-> Undefined, line_items |-> Undefined,
     category |-> Undefined, payment_method |-> Undefined]

S_cafe == <<"C", "a", "f", "e">>
S_usd == <<"U", "S", "D">>
S_abc == <<"a", "b", "c">>
S_price == <<"$", "1", ".", "5", "0">>

JsonDocs ==
    [cafe |->
        Obj([EmptyDoc EXCEPT
            !.merchant_name = Str(S_cafe),
            !.total = Str(<<"$", "9", ".", "5", "0">>),
            !.tax = Null,
            !.subtotal = Null,
            !.line_items = Arr(<<JsonLineItem(<<"L", "a", "t", "t", "e">>, Null, Dec(475, -2), Null),
                                 JsonLineItem(<<"M", "u", "f", "f", "i", "n">>, Null, Dec(475, -2), Null)>>)]),
     full |->
        Obj([merchant_name |-> Str(S_cafe), purchase_date |-> Str(<<"2", "0", "2", "5", "-", "1", "2", "-", "0", "9">>),
             subtotal |-> Whole(25), tax |-> Whole(5), total |-> Whole(30),
             currency |-> Str(S_usd),
             line_items |-> Arr(<<JsonLineItem(<<"L", "u", "n", "c", "h">>, Whole(1), Whole(25), Whole(25))>>),
             category |-> Str(<<"R", "e", "s", "t", "a", "u", "r", "a", "n", "t", "s">>),
             payment_method |-> Str(<<"C", "r", "e", "d", "i", "t", " ", "c", "a", "r", "d", " ", "(", "d", "e", "b", "i", "t", " ", "b", "a", "c", "k", "u", "p", ")">>)]),
     empty |-> Obj(EmptyDoc),
     pm_number |-> Obj([EmptyDoc EXCEPT !.total = Whole(30),
                                       !.payment_method = Whole(5)]),
     items_string |-> Obj([EmptyDoc EXCEPT !.total = Whole(30),
                                          !.line_items = Str(S_abc)]),
     null_item |-> Obj([EmptyDoc EXCEPT !.total = Whole(30),
                                       !.line_items = Arr(<<Null>>)]),
     json_null |-> Null]

DocSymbol ==
    {"{cafe}", "{full}", "{}", "{pm_number}", "{items_string}",
     "{null_item}", "null"}

\* the value the JSON text d denotes
JsonValue(d) ==
    CASE d = "{cafe}" -> JsonDocs.cafe
      [] d = "{full}" -> JsonDocs.full
      [] d = "{}" -> JsonDocs.empty
      [] d = "{pm_number}" -> JsonDocs.pm_number
      [] d = "{items_string}" -> JsonDocs.items_string
      [] d = "{null_item}" -> JsonDocs.null_item
      [] d = "null" -> JsonDocs.json_null

\* JSON.parse(text), for texts made of JSON texts (one symbol each), white
\* space, backquotes and prose letters: the text must be one JSON text with
\* white space around it, anything else is a SyntaxError whose message quotes
\* the text (V8, for a text of a few characters)
JsonParses(text) == Len(Trim(text)) = 1 /\ Trim(text)[1] \in DocSymbol

JSONParse(text) ==
    IF JsonParses(text) THEN JsonValue(Trim(text)[1])
    ELSE Threw(Str(<<"Unexpected token, \"">> \o text \o <<"\" is not valid JSON">>))

-----------------------------------------------------------------------------
(* extractImageDataUrl *)

Base64Alphabet ==
    <<"A", "B", "C", "D", "E", "F", "G", "H", "I", "J", "K", "L", "M", "N", "O", "P", "Q", "R", "S", "T", "U", "V", "W", "X", "Y", "Z", "a", "b", "c", "d", "e", "f", "g", "h", "i", "j", "k", "l", "m", "n", "o", "p", "q", "r", "s", "t", "u", "v", "w", "x", "y", "z", "0", "1", "2", "3", "4", "5", "6", "7", "8", "9", "+", "/">>

B64(n) == Base64Alphabet[n + 1]

\* Buffer.prototype.toString("base64") of a sequence of bytes
RECURSIVE Base64(_)
Base64(bytes) ==
    IF Len(bytes) = 0 THEN <<>>
    ELSE IF Len(bytes) = 1
    THEN <<B64(bytes[1] \div 4), B64((bytes[1] % 4) * 16), "=", "=">>
    ELSE IF Len(bytes) = 2
    THEN <<B64(bytes[1] \div 4),
           B64((bytes[1] % 4) * 16 + bytes[2] \div 16),
           B64((bytes[2] % 16) * 4), "=">>
    ELSE <<B64(bytes[1] \div 4),
           B64((bytes[1] % 4) * 16 + bytes[2] \div 16),
           B64((bytes[2] % 16) * 4 + bytes[3] \div 64),
           B64(bytes[3] % 64)>>
         \o Base64(SubSeq(bytes, 4, Len(bytes)))

DataPrefix == <<"d", "a", "t", "a", ":">>
JpegPrefix == <<"d", "a", "t", "a", ":", "i", "m", "a", "g", "e", "/", "j", "p", "e", "g", ";", "b", "a", "s", "e", "6", "4", ",">>
Base64Marker == <<";", "b", "a", "s", "e", "6", "4", ",">>

\* extractImageDataUrl without the test of body.imageBase64 for truthiness
extractImageDataUrl_NoGuard(rq) ==
    LET raw == IF rq.body.t = "object" /\ rq.body.v.imageBase64.t = "string"
               THEN rq.body.v.imageBase64.v ELSE <<>>
    IN  IF HasPrefixAt(raw, 1, DataPrefix) THEN Str(raw)
        ELSE Str(JpegPrefix \o raw)

\* the data URL of the request's image, or null; rq.files is what multer's
\* upload.any() left on the request, rq.file is never set by it
extractImageDataUrl(rq) ==
    LET image == IF rq.body.t = "object" THEN rq.body.v.imageBase64
                 ELSE Undefined
        files == IF Nullish(rq.files) THEN <<>> ELSE rq.files.v
        file == IF Len(files) > 0 THEN files[1] ELSE rq.file
    IN  IF Truthy(image)
        THEN IF HasPrefixAt(image.v, 1, DataPrefix) THEN image
             ELSE Str(JpegPrefix \o image.v)
        ELSE IF Truthy(file)
        THEN Str(DataPrefix \o file.v.mimetype \o Base64Marker
                 \o Base64(file.v.buffer))
        ELSE Null

-----------------------------------------------------------------------------
(* SpecCoerce: asNumberOrNull applied to one argument *)

Alphabet == {"0", "1", ".", "-", ",", " ", "a"}

GeneratedStrings == UNION {[1..k -> Alphabet] : k \in 0..MaxStrLen}

S_12 == <<"1", "2">>
S_dollar == <<"$", "1", "2", ".", "5", "0">>
S_thousands == <<"1", "2", ",", "5", "0", "0", ".", "0", "0">>
S_vat == <<"V", "A", "T", " ", "1", "1", "%">>
S_lbp == <<"L", "B", "P", " ", "2", "5", "0", "0", "0", "0">>
S_neg == <<" ", "-", "3", ".", "2", "5", "\n">>
S_range == <<"1", "0", "-", "2", "0">>
S_version == <<"v", "1", ".", "2", ".", "3">>

SampleStrings ==
    {S_12, S_dollar, S_thousands, S_vat, S_lbp, S_abc, S_neg, S_range,
     S_version}

CoerceInputs ==
    {Undefined, Null, Bool(TRUE), Bool(FALSE), EmptyObj, Arr(<<>>),
     Whole(12), Whole(0), Whole(-3), Dec(125, -1), Dec(1, 308),
     Num(PosInf), Num(NegInf), Num(NaN)}
    \cup {Str(s) : s \in GeneratedStrings \cup SampleStrings}

InitCoerce ==
    /\ cin \in CoerceInputs
    /\ cout = Pending
    /\ doc = Pending
    /\ analysis = Pending
    /\ pc = <<>>
    /\ req = <<>>
    /\ groqCalls = <<>>
    /\ groqArg = <<>>
    /\ reply = <<>>
    /\ response = <<>>
    /\ StoreUnused

Coerce ==
    /\ cout = Pending
    /\ cout' = asNumberOrNull(cin)
    /\ UNCHANGED <<cin, doc, analysis, pc, req, groqCalls, groqArg, reply, response>>
    /\ UNCHANGED storeVars

NextCoerce == Coerce

SpecCoerce == InitCoerce /\ [][NextCoerce]_vars

-----------------------------------------------------------------------------
(* SpecPayment: normalizePaymentMethod applied to one argument *)

PaymentWords ==
    {<<"c", "a", "s", "h">>,
     <<"C", "r", "e", "d", "i", "t">>,
     <<"D", "E", "B", "I", "T">>,
     <<"A", "p", "p", "l", "e", " ", "P", "a", "y">>,
     <<"g", "o", "o", "g", "l", "e", " ", "p", "a", "y">>,
     <<"W", "a", "l", "l", "e", "t">>,
     <<"m", "o", "b", "i", "l", "e">>,
     <<"B", "a", "n", "k">>,
     <<"t", "r", "a", "n", "s", "f", "e", "r">>,
     <<" ">>,
     <<"c", "a", "r", "d">>,
     <<"v", "i", "s", "a">>}

RECURSIVE Concat(_)
Concat(ws) == IF ws = <<>> THEN <<>> ELSE Head(ws) \o Concat(Tail(ws))

\* texts of up to MaxWords words
GeneratedTexts ==
    {Concat(ws) : ws \in UNION {[1..k -> PaymentWords] : k \in 0..MaxWords}}

S_credit_debit == <<"C", "r", "e", "d", "i", "t", " ", "c", "a", "r", "d", " ", "(", "d", "e", "b", "i", "t", " ", "b", "a", "c", "k", "u", "p", ")">>
S_blank == <<" ", "\t", " ">>

\* parsed.payment_method: string | null, absent when the model left it out
PaymentInputs ==
    {Undefined, Null}
    \cup {Str(s) : s \in GeneratedTexts \cup {S_credit_debit, S_blank}}

InitPayment ==
    /\ cin \in PaymentInputs
    /\ cout = Pending
    /\ doc = Pending
    /\ analysis = Pending
    /\ pc = <<>>
    /\ req = <<>>
    /\ groqCalls = <<>>
    /\ groqArg = <<>>
    /\ reply = <<>>
    /\ response = <<>>
    /\ StoreUnused

Classify ==
    /\ cout = Pending
    /\ cout' = normalizePaymentMethod(cin)
    /\ UNCHANGED <<cin, doc, analysis, pc, req, groqCalls, groqArg, reply, response>>
    /\ UNCHANGED storeVars

NextPayment == Classify

SpecPayment == InitPayment /\ [][NextPayment]_vars

-----------------------------------------------------------------------------
(* SpecClean: cleanJsonMaybe applied to a text, and again to its result *)

\* the pieces model texts are made of: a backquote, a line feed, the two
\* fences and a letter
TextPieces == {<<BackQuote>>, <<"\n">>, FenceOpen, FenceClose, <<"x">>}

GeneratedRaw ==
    {Concat(ws) : ws \in UNION {[1..k -> TextPieces] : k \in 0..MaxPieces}}

S_padded == <<" ", "{}", "\n">>

\* rawContent: a non-empty string, or the empty text cleanJsonMaybe accepts
RawTexts == GeneratedRaw \cup {S_padded}

InitClean ==
    /\ cin \in {Str(s) : s \in RawTexts}
    /\ cout = Pending
    /\ doc = Pending
    /\ analysis = Pending
    /\ pc = <<>>
    /\ req = <<>>
    /\ groqCalls = <<>>
    /\ groqArg = <<>>
    /\ reply = <<>>
    /\ response = <<>>
    /\ StoreUnused

\* cleanJsonMaybe(rawContent)
Clean ==
    /\ cout = Pending
    /\ cout' = Str(cleanJsonMaybe(cin.v))
    /\ UNCHANGED <<cin, doc, analysis, pc, req, groqCalls, groqArg, reply, response>>
    /\ UNCHANGED storeVars

\* cleanJsonMaybe applied to the cleaned text
CleanAgain ==
    /\ cout # Pending
    /\ doc = Pending
    /\ doc' = Str(cleanJsonMaybe(cout.v))
    /\ UNCHANGED <<cin, cout, analysis, pc, req, groqCalls, groqArg, reply, response>>
    /\ UNCHANGED storeVars

NextClean == Clean \/ CleanAgain

SpecClean == InitClean /\ [][NextClean]_vars

-----------------------------------------------------------------------------
(* SpecSplit: one parsed JSON object normalized and turned into both views *)

S_soda == <<"S", "o", "d", "a">>
S_40 == <<" ", "4", "0", " ">>
S_cash == <<"C", "a", "s", "h">>

\* the text fields of the generated receipts
TextProfiles ==
    {[merchant_name |-> Str(S_cafe), purchase_date |-> Null,
      currency |-> Str(S_usd), category |-> Undefined,
      payment_method |-> Str(S_cash)]}

\* Raw values of the numeric fields.  What is no finite number after
\* coercion appears as each JSON type in turn: missing, null, boolean, object,
\* array, a string without digits, and 1e999 (which JSON.parse reads as
\* Infinity).
RawSubtotals == {Undefined, Whole(0), Str(S_40)}
RawTaxes == {Null, Whole(5), Str(S_40), Dec(-1, 308)}
RawTotals == {Bool(TRUE), Whole(30), Dec(1, 308)}

RawQuantities == {EmptyObj, Whole(2)}
RawUnitPrices == {Str(S_abc), Str(S_price)}
RawItemTotals == {Num(PosInf), Whole(15)}

RawLineItems ==
    {Obj([description |-> Str(S_soda), quantity |-> q, unit_price |-> p,
          total |-> t]) :
        q \in RawQuantities, p \in RawUnitPrices, t \in RawItemTotals}
    \cup {Obj([description |-> Str(S_cafe), quantity |-> Whole(2),
               unit_price |-> Whole(3), total |-> Whole(10)]),
          Obj([description |-> Undefined, quantity |-> Whole(2),
               unit_price |-> Dec(1, 308), total |-> Arr(<<>>)])}

RawLineItemLists ==
    {Undefined, Null}
    \cup {Arr(a) : a \in UNION {[1..k -> RawLineItems] : k \in 0..MaxItems}}

SplitDocs ==
    {[merchant_name |-> tp.merchant_name, purchase_date |-> tp.purchase_date,
      subtotal |-> st, tax |-> tx, total |-> tt, currency |-> tp.currency,
      line_items |-> li, category |-> tp.category,
      payment_method |-> tp.payment_method] :
        tp \in TextProfiles, st \in RawSubtotals, tx \in RawTaxes,
        tt \in RawTotals, li \in RawLineItemLists}

\* what Math.random().toString(36).substring(2, 9) may return
IdSpace == {"id_a", "id_b"}

\* one generated id per call of generateId: one per line item, or one for the
\* placeholder
IdChoices(d) ==
    LET n == IF d.line_items.t = "array" /\ Len(d.line_items.v) > 0
             THEN Len(d.line_items.v) ELSE 1
    IN  [1..n -> IdSpace]

InitSplit ==
    /\ doc \in SplitDocs
    /\ analysis = Pending
    /\ cin = Null
    /\ cout = Pending
    /\ pc = <<>>
    /\ req = <<>>
    /\ groqCalls = <<>>
    /\ groqArg = <<>>
    /\ reply = <<>>
    /\ response = <<>>
    /\ StoreUnused

Analyze ==
    /\ analysis = Pending
    /\ \E ids \in IdChoices(doc) : analysis' = AnalyzeParsed(doc, ids)
    /\ UNCHANGED <<cin, cout, doc, pc, req, groqCalls, groqArg, reply, response>>
    /\ UNCHANGED storeVars

NextSplit == Analyze

SpecSplit == InitSplit /\ [][NextSplit]_vars

-----------------------------------------------------------------------------
(* Spec: POST /api/ai/receipts/analyze-image, NumRequests requests at once *)

Request == 1..NumRequests

S_base64 == <<"Q", "U", "J", "D">>
S_png == <<"i", "m", "a", "g", "e", "/", "p", "n", "g">>

\* multer's limit on the size of one uploaded file, in bytes
maxUploadMb == 10
MaxFileSize == maxUploadMb * 1024 * 1024

\* A file part of a multipart request: size is the number of bytes the client
\* sends, buffer the bytes multer keeps in memory (the first ones stand for all).
UploadedFile == Obj([mimetype |-> S_png, buffer |-> <<65, 66, 67>>, size |-> 3])
OversizeFile ==
    Obj([mimetype |-> S_png, buffer |-> <<65, 66, 67>>, size |-> MaxFileSize + 1])

HttpRequest(image, files) ==
    [body |-> image, files |-> files, file |-> Undefined]

\* The requests a client may send: no body at all, a JSON body with an empty
\* imageBase64, raw base64, a data URL, and a multipart upload with a file.
HttpRequests ==
    {HttpRequest(Undefined, Undefined),
     HttpRequest(Obj([imageBase64 |-> Str(<<>>)]), Arr(<<>>)),
     HttpRequest(Obj([imageBase64 |-> Str(S_base64)]), Undefined),
     HttpRequest(Obj([imageBase64 |-> Str(<<"d", "a", "t", "a", ":", "i", "m", "a", "g", "e", "/", "p", "n", "g", ";", "b", "a", "s", "e", "6", "4", ",", "Q", "U", "J", "D">>)]),
                 Undefined),
     HttpRequest(Obj([imageBase64 |-> Undefined]), Arr(<<UploadedFile>>)),
     HttpRequest(Obj([imageBase64 |-> Undefined]), Arr(<<OversizeFile>>))}

\* upload.any() with limits.fileSize: multer passes MulterError LIMIT_FILE_SIZE
\* to next() when a file part is larger than the limit; the handler is not run.
MulterRejects(rq) ==
    /\ rq.files.t = "array"
    /\ \E i \in 1..Len(rq.files.v) : rq.files.v[i].v.size > MaxFileSize

\* server.ts registers no error-handling middleware, so Express's default
\* handler answers an error passed to next(): an HTML page with the status of
\* the error (500 when it has none) holding err.stack, or only the status
\* text when NODE_ENV is "production".
DefaultErrorPages ==
    {Lit("<pre>MulterError: File too large<br> at ...stack frames...</pre>"),
     Lit("<pre>Internal Server Error</pre>")}

DefaultErrorHandler(page) == [status |-> 500, type |-> "html", body |-> page]

Fenced(text) == FenceOpen \o <<"\n">> \o text \o <<"\n">> \o FenceClose

S_prose == <<"H", "i">>

\* completion.choices[0]?.message?.content: missing, empty, or a text
ReplyContents ==
    {Undefined, Str(<<>>), Str(S_prose), Str(Fenced(S_prose)),
     Str(Fenced(<<"{cafe}">>))}
    \cup {Str(<<d>>) : d \in DocSymbol \ {"{cafe}"}}

\* what the Groq SDK rejects with: an instance of Error, with this message
ProviderErrors == {Lit("Connection error.")}

Absent == Undefined

Respond(status, success, error, details, rawText, data, split) ==
    [status |-> status, type |-> "json",
     body |-> [success |-> Bool(success), error |-> error, details |-> details,
               raw_text |-> rawText, data |-> data, split_receipt |-> split]]

\* the catch block of the handler: error is an Error with that message
CatchBlock(message) ==
    Respond(500, FALSE, Lit("Failed to analyze receipt image"), message,
            Absent, Absent, Absent)

\* how many ids the handler draws for the parsed value
IdsNeeded(parsed) ==
    IF parsed.t = "object" /\ parsed.v.line_items.t = "array"
           /\ Len(parsed.v.line_items.v) > 0
    THEN Len(parsed.v.line_items.v) ELSE 1

\* The handler from the return of groq.chat.completions.create to its
\* response: analyzeReceiptFromDataUrl lines 309-328, handler lines 345-376,
\* every throw caught at line 377.
AfterGroq(content, ids) ==
    IF ~Truthy(content) THEN CatchBlock(Lit("Empty response from Groq"))
    ELSE LET parsed == JSONParse(cleanJsonMaybe(content.v))
         IN  IF parsed.t = "threw" THEN CatchBlock(parsed.error)
             ELSE IF parsed.t # "object" THEN CatchBlock(TypeErrorMsg)
             ELSE LET result == AnalyzeParsed(parsed.v, ids)
                  IN  IF result.t = "threw" THEN CatchBlock(result.error)
                      ELSE Respond(200, TRUE, Absent, Absent, content,
                                   Obj(result.data), Obj(result.split))

Init ==
    /\ pc = [r \in Request |-> "idle"]
    /\ req = [r \in Request |-> Pending]
    /\ groqCalls = [r \in Request |-> 0]
    /\ groqArg = [r \in Request |-> Pending]
    /\ reply = [r \in Request |-> Pending]
    /\ response = [r \in Request |-> Pending]
    /\ cin = Null
    /\ cout = Pending
    /\ doc = Pending
    /\ analysis = Pending
    /\ StoreUnused

\* A request arrives, passes upload.any() and the handler runs to its first
\* await: without an image it answers 400, with one it calls the vision
\* service. A request multer rejects is answered by the default error handler.
StartRequest(r) ==
    /\ pc[r] = "idle"
    /\ \E rq \in HttpRequests :
          LET dataUrl == extractImageDataUrl(rq)
          IN  /\ req' = [req EXCEPT ![r] = rq]
              /\ IF MulterRejects(rq)
                 THEN /\ \E page \in DefaultErrorPages :
                            response' = [response EXCEPT ![r] =
                                            DefaultErrorHandler(page)]
                      /\ pc' = [pc EXCEPT ![r] = "done"]
                      /\ UNCHANGED <<groqCalls, groqArg>>
                 ELSE IF ~Truthy(dataUrl)
                 THEN /\ response' = [response EXCEPT ![r] =
                            Respond(400, FALSE, Lit("Image file is required"),
                                    Absent, Absent, Absent, Absent)]
                      /\ pc' = [pc EXCEPT ![r] = "done"]
                      /\ UNCHANGED <<groqCalls, groqArg>>
                 ELSE /\ groqCalls' = [groqCalls EXCEPT ![r] = @ + 1]
                      /\ groqArg' = [groqArg EXCEPT ![r] = dataUrl]
                      /\ pc' = [pc EXCEPT ![r] = "awaitGroq"]
                      /\ UNCHANGED response
    /\ UNCHANGED <<cin, cout, doc, analysis, reply>>
    /\ UNCHANGED storeVars

\* a handler that keeps the model text in a module-level variable, so that
\* it may answer with the text another request stored there
GroqResolves_SharedReply(r) ==
    /\ pc[r] = "awaitGroq"
    /\ \E content \in ReplyContents :
          /\ reply' = [reply EXCEPT ![r] = content]
          /\ \E other \in {content} \cup
                    {reply[q] : q \in {x \in Request : reply[x].t = "string"}} :
                \E ids \in [1..IdsNeeded(JSONParse(cleanJsonMaybe(
                                IF other.t = "string" THEN other.v ELSE <<>>)))
                             -> IdSpace] :
                    response' = [response EXCEPT ![r] = AfterGroq(other, ids)]
    /\ pc' = [pc EXCEPT ![r] = "done"]
    /\ UNCHANGED <<cin, cout, doc, analysis, req, groqCalls, groqArg>>
    /\ UNCHANGED storeVars

\* The vision service answers and the handler runs to its response.
GroqResolves(r) ==
    /\ pc[r] = "awaitGroq"
    /\ \E content \in ReplyContents :
          /\ reply' = [reply EXCEPT ![r] = content]
          /\ \E ids \in [1..IdsNeeded(JSONParse(cleanJsonMaybe(
                            IF content.t = "string" THEN content.v ELSE <<>>)))
                         -> IdSpace] :
                response' = [response EXCEPT ![r] = AfterGroq(content, ids)]
    /\ pc' = [pc EXCEPT ![r] = "done"]
    /\ UNCHANGED <<cin, cout, doc, analysis, req, groqCalls, groqArg>>
    /\ UNCHANGED storeVars

\* a handler that calls the vision service a second time after a failure
GroqRejects_Retry(r) ==
    /\ pc[r] = "awaitGroq"
    /\ \E err \in ProviderErrors :
          IF groqCalls[r] < 2
          THEN /\ groqCalls' = [groqCalls EXCEPT ![r] = @ + 1]
               /\ UNCHANGED <<reply, response, pc>>
          ELSE /\ reply' = [reply EXCEPT ![r] = Threw(err)]
               /\ response' = [response EXCEPT ![r] = CatchBlock(err)]
               /\ pc' = [pc EXCEPT ![r] = "done"]
               /\ UNCHANGED groqCalls
    /\ UNCHANGED <<cin, cout, doc, analysis, req, groqArg>>
    /\ UNCHANGED storeVars

\* The call to the vision service fails (network, time-out, rate limit,
\* non-2xx) and the catch block answers.
GroqRejects(r) ==
    /\ pc[r] = "awaitGroq"
    /\ \E err \in ProviderErrors :
          /\ reply' = [reply EXCEPT ![r] = Threw(err)]
          /\ response' = [response EXCEPT ![r] = CatchBlock(err)]
    /\ pc' = [pc EXCEPT ![r] = "done"]
    /\ UNCHANGED <<cin, cout, doc, analysis, req, groqCalls, groqArg>>
    /\ UNCHANGED storeVars

Next ==
    \E r \in Request : StartRequest(r) \/ GroqResolves(r) \/ GroqRejects(r)

Spec == Init /\ [][Next]_vars

-----------------------------------------------------------------------------
(* Claims about the analyze-image handler, under Spec *)

\* the vision service answered request r with a non-empty text
TextReply(r) == reply[r].t = "string" /\ reply[r].v # <<>>

\* C1: when the vision service returns non-empty text that is no JSON after
\* fence stripping, the response carries the raw model text and success: false.
C1_RawTextOnParseFailure ==
    \A r \in Request :
        (/\ pc[r] = "done"
         /\ TextReply(r)
         /\ ~JsonParses(cleanJsonMaybe(reply[r].v)))
            => /\ response[r].body.success = Bool(FALSE)
               /\ response[r].body.raw_text = reply[r]

\* C3: when the model output parses as a JSON object the request succeeds,
\* whatever the value of any single field.
C3_ObjectReplySucceeds ==
    \A r \in Request :
        (/\ pc[r] = "done"
         /\ TextReply(r)
         /\ JsonParses(cleanJsonMaybe(reply[r].v))
         /\ JSONParse(cleanJsonMaybe(reply[r].v)).t = "object")
            => response[r].body.success = Bool(TRUE)

\* the request carries neither a non-empty imageBase64 nor an uploaded file
NoImageSource(rq) ==
    /\ \/ rq.body.t # "object"
       \/ rq.body.v.imageBase64.t # "string"
       \/ rq.body.v.imageBase64.v = <<>>
    /\ \/ rq.files.t # "array"
       \/ rq.files.v = <<>>

\* C10: a request with neither a non-empty imageBase64 nor an uploaded file is
\* answered 400 {success: false, error: "Image file is required"} and the
\* vision service is never called for it.
C10_NoImageIs400 ==
    \A r \in Request :
        (pc[r] # "idle" /\ NoImageSource(req[r]))
            => /\ groqCalls[r] = 0
               /\ pc[r] = "done"
               /\ response[r].status = 400
               /\ response[r].body =
                    [success |-> Bool(FALSE),
                     error |-> Lit("Image file is required"),
                     details |-> Absent, raw_text |-> Absent,
                     data |-> Absent, split_receipt |-> Absent]

\* a request with an empty imageBase64 and an empty file list was refused
\* while another request was waiting for the vision service
C10_Witness ==
    \E r, q \in Request :
        /\ pc[r] = "done"
        /\ req[r].body.t = "object"
        /\ req[r].body.v.imageBase64 = Str(<<>>)
        /\ req[r].files = Arr(<<>>)
        /\ response[r].status = 400
        /\ groqCalls[r] = 0
        /\ pc[q] = "awaitGroq"
        /\ groqCalls[q] = 1

\* the vision service was called for r and failed or returned no content
UpstreamFailed(r) ==
    \/ reply[r].t = "threw"
    \/ reply[r].t = "undefined"
    \/ reply[r] = Str(<<>>)

\* resp is a JSON body with success false and a string error
StructuredFailure(resp) ==
    /\ resp.type = "json"
    /\ resp.body.success = Bool(FALSE)
    /\ resp.body.error.t = "string"

\* C11: when the vision service fails or returns no content the answer is 500
\* {success: false, error: <string>, details: <string>}; and every failure
\* response of the endpoint is a structured body with success false and a
\* string error, never an error object or a stack trace.
C11_StructuredFailure ==
    \A r \in Request :
        pc[r] = "done" =>
            /\ UpstreamFailed(r) =>
                  /\ response[r].status = 500
                  /\ StructuredFailure(response[r])
                  /\ response[r].body.details.t = "string"
            /\ response[r].status # 200 => StructuredFailure(response[r])

\* C12: the vision service is called at most once per request and only for a
\* request that carries an image source; the reply or failure of the call is
\* answered in the same step, and a request has a response exactly when it
\* is finished; a response, once sent, is never replaced and no call follows it.
C12_AtMostOneCall ==
    /\ [](\A r \in Request :
            /\ groqCalls[r] <= 1
            /\ groqCalls[r] = 1 =>
                  /\ Truthy(extractImageDataUrl(req[r]))
                  /\ ~MulterRejects(req[r])
            /\ reply[r] # Pending =>
                  /\ groqCalls[r] = 1
                  /\ pc[r] = "done"
            /\ pc[r] = "done" <=> response[r] # Pending)
    /\ [][\A r \in Request :
            /\ groqCalls'[r] >= groqCalls[r]
            /\ response[r] # Pending =>
                  /\ response'[r] = response[r]
                  /\ groqCalls'[r] = groqCalls[r]]_vars

\* one request was answered after a malformed reply and another after a
\* failed call, each with a single call to the vision service
C12_Witness ==
    \E r, q \in Request :
        /\ pc[r] = "done" /\ reply[r] = Str(S_prose)
        /\ groqCalls[r] = 1 /\ response[r].status = 500
        /\ pc[q] = "done" /\ reply[q].t = "threw"
        /\ groqCalls[q] = 1 /\ response[q].status = 500

\* resp with the generated identifiers of its split items blanked
WithoutIds(resp) ==
    IF resp.type = "json" /\ resp.body.split_receipt.t = "object"
    THEN [resp EXCEPT !.body.split_receipt.v.items =
            [k \in DOMAIN @ |-> [@[k] EXCEPT !.id = "id"]]]
    ELSE resp

\* the responses a request rq can get when it runs alone and the vision
\* service, if called, answers rep
AloneResponses(rq, rep) ==
    IF MulterRejects(rq)
    THEN {DefaultErrorHandler(page) : page \in DefaultErrorPages}
    ELSE IF ~Truthy(extractImageDataUrl(rq))
    THEN {Respond(400, FALSE, Lit("Image file is required"),
                  Absent, Absent, Absent, Absent)}
    ELSE IF rep.t = "threw" THEN {CatchBlock(rep.error)}
    ELSE {WithoutIds(AfterGroq(rep, ids)) :
            ids \in [1..IdsNeeded(JSONParse(cleanJsonMaybe(
                        IF rep.t = "string" THEN rep.v ELSE <<>>)))
                     -> {"id"}]}

\* the state the handler keeps for request r
Slots(r) == <<pc[r], req[r], groqCalls[r], groqArg[r], reply[r], response[r]>>

\* the same, in the next state
SlotsNext(r) ==
    <<pc'[r], req'[r], groqCalls'[r], groqArg'[r], reply'[r], response'[r]>>

\* C13: under every interleaving, the response to a request is, apart from
\* generated identifiers, what the request gets alone for its own image and
\* its own model reply, the vision service is called with its own image, and
\* a step of one request leaves the state of every other request alone.
C13_NoInterference ==
    /\ [](\A r \in Request :
            /\ pc[r] = "done" =>
                  WithoutIds(response[r]) \in AloneResponses(req[r], reply[r])
            /\ groqCalls[r] > 0 => groqArg[r] = extractImageDataUrl(req[r]))
    /\ [][\E r \in Request :
            \A q \in Request \ {r} : SlotsNext(q) = Slots(q)]_vars

\* two requests with different images were in flight together and got
\* different replies: one succeeded with split items, the other failed
C13_Witness ==
    \E r, q \in Request :
        /\ pc[r] = "done" /\ pc[q] = "done"
        /\ groqArg[r] # groqArg[q]
        /\ groqCalls[r] = 1 /\ groqCalls[q] = 1
        /\ response[r].status = 200
        /\ Len(response[r].body.split_receipt.v.items) > 0
        /\ reply[q] = Str(S_prose)
        /\ response[q].status = 500

S_fencedCafe == Fenced(<<"{cafe}">>)

\* C17: the fenced model text with merchant "Cafe", total "$9.50", null tax
\* and subtotal and two line items (Latte, Muffin) of unit price 4.75 without
\* quantity or total gives a success response with two split items of total
\* 4.75 each, derived subtotal 9.5 and flat total_amount 9.5.
C17_CafeScenario ==
    \A r \in Request :
        (pc[r] = "done" /\ reply[r] = Str(S_fencedCafe)) =>
            /\ response[r].status = 200
            /\ response[r].body.success = Bool(TRUE)
            /\ response[r].body.raw_text = Str(S_fencedCafe)
            /\ LET split == response[r].body.split_receipt.v
                   flat == response[r].body.data.v
               IN  /\ Len(split.items) = 2
                   /\ split.items[1].name = Str(<<"L", "a", "t", "t", "e">>)
                   /\ split.items[2].name = Str(<<"M", "u", "f", "f", "i", "n">>)
                   /\ \A k \in 1..2 :
                         /\ split.items[k].total = Dec(475, -2)
                         /\ split.items[k].unitPrice = Dec(475, -2)
                   /\ split.subtotal = Dec(95, -1)
                   /\ split.merchant = Str(S_cafe)
                   /\ flat.total_amount = Dec(95, -1)
                   /\ flat.vendor_name = Str(S_cafe)

\* the fenced Cafe text was answered with a success response
C17_Witness ==
    \E r \in Request :
        /\ pc[r] = "done"
        /\ reply[r] = Str(S_fencedCafe)
        /\ response[r].status = 200
        /\ Len(response[r].body.split_receipt.v.items) = 2

-----------------------------------------------------------------------------
(* C5 *)

\* u is an optional minus sign, digits, and an optional "." with digits
IsNumeral(u) ==
    \E sgn \in 0..1, k \in 1..Len(u), f \in 0..Len(u) :
        /\ Len(u) = sgn + k + (IF f > 0 THEN f + 1 ELSE 0)
        /\ sgn = 1 => u[1] = "-"
        /\ \A j \in (sgn + 1)..(sgn + k) : u[j] \in Digit
        /\ f > 0 => /\ u[sgn + k + 1] = "."
                    /\ \A j \in (sgn + k + 2)..Len(u) : u[j] \in Digit

\* where the numerals of s lie
Numerals(s) ==
    {ij \in (1..Len(s)) \X (1..Len(s)) :
        ij[1] <= ij[2] /\ IsNumeral(SubSeq(s, ij[1], ij[2]))}

RECURSIVE Horner(_, _)
Horner(ds, acc) ==
    IF ds = <<>> THEN acc ELSE Horner(Tail(ds), 10 * acc + DigitVal(Head(ds)))

\* the decimal value a numeral denotes
NumeralValue(u) ==
    LET digits == SelectSeq(u, IsDigitChar)
        dots == {j \in 1..Len(u) : u[j] = "."}
        f == IF dots = {} THEN 0 ELSE Len(u) - (CHOOSE j \in dots : TRUE)
        mag == Horner(digits, 0)
    IN  MakeNum(IF u[1] = "-" THEN -mag ELSE mag, -f)

-----------------------------------------------------------------------------
(* Claims about normalization and the split view, under SpecSplit *)

Done == analysis.t = "done"

\* the normalized line items and the raw ones they come from
ParsedItems == analysis.parsed.line_items.v
RawItems == IF Nullish(doc.line_items) THEN <<>> ELSE doc.line_items.v

FiniteOrNull(x) == x.t = "null" \/ IsFiniteNumber(x)

\* C2: every item of the split view has a total that is a finite number.
C2_SplitTotalsFinite ==
    Done => \A k \in 1..Len(analysis.split.items) :
                IsFiniteNumber(analysis.split.items[k].total)

\* C4: after normalization subtotal, tax, total and every line item's
\* quantity, unit_price and total are a finite number or null, whatever type
\* the raw value had.
C4_NormalizedNumericFields ==
    Done =>
        /\ FiniteOrNull(analysis.parsed.subtotal)
        /\ FiniteOrNull(analysis.parsed.tax)
        /\ FiniteOrNull(analysis.parsed.total)
        /\ \A k \in 1..Len(ParsedItems) :
              /\ FiniteOrNull(ParsedItems[k].v.quantity)
              /\ FiniteOrNull(ParsedItems[k].v.unit_price)
              /\ FiniteOrNull(ParsedItems[k].v.total)

\* a receipt whose raw values were a boolean, a string, an object and
\* Infinity has been normalized
C4_Witness ==
    /\ Done
    /\ doc.total.t = "boolean" /\ analysis.parsed.total = Null
    /\ doc.subtotal.t = "string" /\ analysis.parsed.subtotal = Whole(40)
    /\ \E k \in 1..Len(RawItems) :
          /\ RawItems[k].v.total = Num(PosInf)
          /\ RawItems[k].v.quantity.t = "object"
          /\ ParsedItems[k].v.total = Null

\* the effective quantity: the quantity if finite, 1 if only the unit price is
EffectiveQuantity(li) ==
    IF IsFiniteNumber(li.quantity) THEN li.quantity
    ELSE IF IsFiniteNumber(li.unit_price) THEN Whole(1)
    ELSE Null

\* the priority order as the claim states it
ClaimedItemTotal(li) ==
    IF IsFiniteNumber(li.total) THEN li.total
    ELSE IF IsFiniteNumber(EffectiveQuantity(li)) /\ IsFiniteNumber(li.unit_price)
         THEN Num(Mul(EffectiveQuantity(li).v, li.unit_price.v))
    ELSE IF IsFiniteNumber(li.unit_price) THEN li.unit_price
    ELSE Whole(0)

\* C6 as stated: the total of each split item follows the priority order,
\* the product being taken whenever quantity and unit price are finite.
C6_Original ==
    Done => \A k \in 1..Len(ParsedItems) :
                analysis.split.items[k].total = ClaimedItemTotal(ParsedItems[k].v)

\* C6 amended: the same priority order, except that a product that is not a
\* finite number (overflow) gives 0; {2, 3, 10} gives 10 and
\* {null, 1.5, null} gives effective quantity 1 and total 1.5.
C6_ItemTotalPriority ==
    Done => \A k \in 1..Len(ParsedItems) :
        LET li == ParsedItems[k].v
            total == analysis.split.items[k].total
        IN  /\ total = IF IsFiniteNumber(ClaimedItemTotal(li))
                       THEN ClaimedItemTotal(li) ELSE Whole(0)
            /\ (li.quantity = Whole(2) /\ li.unit_price = Whole(3)
                    /\ li.total = Whole(10)) => total = Whole(10)
            /\ (li.quantity = Null /\ li.unit_price = Dec(15, -1)
                    /\ li.total = Null)
                  => EffectiveQuantity(li) = Whole(1) /\ total = Dec(15, -1)

\* all three ways to a total have been taken on one receipt: the reported
\* total against a different product, the product with quantity 1, and an
\* overflowing product
C6_Witness ==
    /\ Done
    /\ \E k \in 1..Len(ParsedItems) :
          /\ ParsedItems[k].v.quantity = Whole(2)
          /\ ParsedItems[k].v.unit_price = Whole(3)
          /\ analysis.split.items[k].total = Whole(10)
    /\ \E k \in 1..Len(ParsedItems) :
          /\ ParsedItems[k].v.quantity = Null
          /\ ParsedItems[k].v.total = Null
          /\ analysis.split.items[k].total = Dec(15, -1)

\* an overflowing product has been replaced by 0
C6_OverflowReached ==
    /\ Done
    /\ \E k \in 1..Len(ParsedItems) :
          /\ ParsedItems[k].v.unit_price = Dec(1, 308)
          /\ ParsedItems[k].v.total = Null
          /\ analysis.split.items[k].total = Whole(0)

\* t1 + ... + tn, added from the left
RECURSIVE TotalsUpTo(_, _)
TotalsUpTo(items, n) ==
    IF n = 0 THEN Zero ELSE Add(TotalsUpTo(items, n - 1), items[n].total.v)

\* the sum of the finalized totals of the line items (0 when there is none)
ItemsSum ==
    IF Len(ParsedItems) = 0 THEN Zero
    ELSE TotalsUpTo(analysis.split.items, Len(ParsedItems))

UsesFallback3 ==
    /\ ~IsFiniteNumber(analysis.parsed.subtotal)
    /\ ~GtZero(ItemsSum)
    /\ IsFiniteNumber(analysis.parsed.total)
    /\ IsFiniteNumber(analysis.parsed.tax)

\* C7: the subtotal of the split view is the reported subtotal if finite, else
\* the sum of the item totals if positive, else max(0, total - tax) if both
\* are finite, else absent; items summing to 25 give 25; the third fallback
\* is never negative.
C7_SubtotalPriority ==
    Done =>
        LET p == analysis.parsed
            subtotal == analysis.split.subtotal
            diff == Sub(p.total.v, p.tax.v)
        IN  /\ subtotal =
                  IF IsFiniteNumber(p.subtotal) THEN p.subtotal
                  ELSE IF GtZero(ItemsSum) THEN Num(ItemsSum)
                  ELSE IF IsFiniteNumber(p.total) /\ IsFiniteNumber(p.tax)
                       THEN Num(IF GtZero(diff) THEN diff ELSE Zero)
                  ELSE Undefined
            /\ (p.subtotal = Null /\ ItemsSum = Whole(25).v)
                  => subtotal = Whole(25)
            /\ UsesFallback3 => subtotal.t = "number" /\ subtotal.v.m >= 0

\* total - tax was negative and the subtotal is 0
C7_Witness ==
    /\ Done
    /\ UsesFallback3
    /\ analysis.parsed.total = Whole(30)
    /\ analysis.parsed.tax = Whole(40)
    /\ analysis.split.subtotal = Whole(0)

\* items summing to 25 gave the subtotal 25
C7_SumReached ==
    /\ Done
    /\ analysis.parsed.subtotal = Null
    /\ Len(ParsedItems) = 2
    /\ analysis.split.subtotal = Whole(25)

PositiveSubtotal ==
    analysis.split.subtotal.t = "number" /\ GtZero(analysis.split.subtotal.v)

\* C8: with line items the split view holds one item per line item, in order,
\* and no placeholder; with none it holds the single placeholder "Items
\* Subtotal" carrying the subtotal if that is positive, and nothing otherwise.
C8_ItemList ==
    Done =>
        LET items == analysis.split.items
        IN  IF Len(ParsedItems) > 0
            THEN /\ Len(items) = Len(ParsedItems)
                 /\ \A k \in 1..Len(items) :
                      LET li == ParsedItems[k].v
                      IN  /\ items[k].name =
                                IF li.description = Str(<<>>) THEN ItemName
                                ELSE li.description
                          /\ items[k].name # ItemsSubtotalName
                          /\ items[k].qty = Coalesce(li.quantity, Undefined)
                          /\ items[k].unitPrice = Coalesce(li.unit_price, Undefined)
            ELSE IF PositiveSubtotal
            THEN /\ Len(items) = 1
                 /\ items[1].name = ItemsSubtotalName
                 /\ items[1].total = analysis.split.subtotal
            ELSE items = <<>>

\* no line item, subtotal 40: the placeholder carries 40
C8_Witness ==
    /\ Done
    /\ Len(ParsedItems) = 0
    /\ Len(analysis.split.items) = 1
    /\ analysis.split.items[1].name = ItemsSubtotalName
    /\ analysis.split.items[1].total = Whole(40)

\* two line items whose sum differs from the reported subtotal are kept
C8_ItemsKept ==
    /\ Done
    /\ Len(ParsedItems) = 2
    /\ analysis.parsed.subtotal = Whole(40)
    /\ ItemsSum = Whole(25).v
    /\ Len(analysis.split.items) = 2

C9_Case ==
    /\ Done
    /\ doc.subtotal = Whole(0)
    /\ Len(ParsedItems) = 0
    /\ analysis.parsed.total = Whole(30)
    /\ analysis.parsed.tax = Whole(5)

\* C9 as stated: reported subtotal 0, no items, total 30, tax 5 give the
\* derived subtotal 25.
C9_Original == C9_Case => analysis.split.subtotal = Whole(25)

\* C9 amended: reported subtotal 0, no items, total 30, tax 5 give the derived
\* subtotal 0, the reported subtotal being finite, and no placeholder item;
\* 25 is derived from total - tax when the reported subtotal is absent.
C9_ZeroSubtotalWins ==
    /\ C9_Case =>
          /\ analysis.split.subtotal = Whole(0)
          /\ analysis.split.items = <<>>
    /\ (/\ Done
        /\ analysis.parsed.subtotal = Null
        /\ Len(ParsedItems) = 0
        /\ analysis.parsed.total = Whole(30)
        /\ analysis.parsed.tax = Whole(5))
          => analysis.split.subtotal = Whole(25)

C9_Witness == C9_Case /\ analysis.split.subtotal = Whole(0)

\* the model value x as both views carry it: absent when null or missing
PassedThrough(x) == IF Nullish(x) THEN Undefined ELSE x

\* C16: the flat and the split view of a parsed receipt agree on vendor and
\* merchant, date, currency, tax and total, each being the model value (for
\* tax and total the coerced one) passed through underived, absent in both
\* views when the model value is null or missing.
C16_ViewsAgree ==
    Done =>
        LET flat == analysis.data
            split == analysis.split
        IN  /\ flat.vendor_name = split.merchant
            /\ split.merchant = PassedThrough(doc.merchant_name)
            /\ flat.purchase_date = split.date
            /\ split.date = PassedThrough(doc.purchase_date)
            /\ flat.currency = split.currency
            /\ split.currency = PassedThrough(doc.currency)
            /\ flat.tax_amount = split.taxAmount
            /\ split.taxAmount = PassedThrough(asNumberOrNull(doc.tax))
            /\ flat.total_amount = split.totalAmount
            /\ split.totalAmount = PassedThrough(asNumberOrNull(doc.total))

\* both views were built from a receipt with a tax given as text, a total
\* that is no number and a null date
C16_Witness ==
    /\ Done
    /\ doc.tax = Str(S_40) /\ analysis.split.taxAmount = Whole(40)
    /\ doc.total = Bool(TRUE) /\ analysis.data.total_amount = Undefined
    /\ doc.purchase_date = Null /\ analysis.split.date = Undefined
    /\ analysis.data.vendor_name = Str(S_cafe)

\* C20: within one split receipt no two items, the placeholder included,
\* have the same generated id, and every item starts with an empty assignee
\* list.
C20_UniqueIds ==
    Done =>
        LET items == analysis.split.items
        IN  /\ \A j, k \in 1..Len(items) :
                  j # k => items[j].id # items[k].id
            /\ \A k \in 1..Len(items) : items[k].assignedTo = <<>>

-----------------------------------------------------------------------------
(* Claims about normalizePaymentMethod, under SpecPayment *)

\* the classification rules in their order: the keywords of a rule, its method
PaymentRules ==
    <<[keywords |-> {<<"c", "a", "s", "h">>}, method |-> PM_cash],
      [keywords |-> {<<"c", "r", "e", "d", "i", "t">>}, method |-> PM_credit_card],
      [keywords |-> {<<"d", "e", "b", "i", "t">>}, method |-> PM_debit_card],
      [keywords |-> {<<"a", "p", "p", "l", "e", " ", "p", "a", "y">>,
                     <<"g", "o", "o", "g", "l", "e", " ", "p", "a", "y">>,
                     <<"w", "a", "l", "l", "e", "t">>, <<"m", "o", "b", "i", "l", "e">>},
       method |-> PM_mobile_payment],
      [keywords |-> {<<"b", "a", "n", "k">>, <<"t", "r", "a", "n", "s", "f", "e", "r">>},
       method |-> PM_bank_transfer]>>

\* rule k applies to the lower-cased text
RuleMatches(k, text) ==
    \E kw \in PaymentRules[k].keywords : Includes(ToLowerCase(text), kw)

\* the method of the earliest rule that applies, other when none does
FirstMatch_Method(text) ==
    IF \E k \in DOMAIN PaymentRules : RuleMatches(k, text)
    THEN PaymentRules[CHOOSE k \in DOMAIN PaymentRules :
            /\ RuleMatches(k, text)
            /\ \A j \in 1..(k - 1) : ~RuleMatches(j, text)].method
    ELSE PM_other

\* C14: a non-empty text is classified by the earliest rule, in the order
\* cash, credit, debit, mobile, bank transfer, that has a keyword in the
\* lower-cased text, and as other when no rule has one; "Credit card (debit
\* backup)" is credit_card.
C14_FirstMatchWins ==
    (cout # Pending /\ cin.t = "string" /\ cin.v # <<>>) =>
        /\ cout = FirstMatch_Method(cin.v)
        /\ cin.v = S_credit_debit => cout = PM_credit_card

\* the text with both "credit" and "debit" was classified as credit_card
C14_Witness ==
    /\ cin = Str(S_credit_debit)
    /\ cout = PM_credit_card

PaymentMethods ==
    {PM_cash, PM_credit_card, PM_debit_card, PM_mobile_payment,
     PM_bank_transfer, PM_other}

\* C15: every string, the empty and the whitespace-only ones included, is
\* classified as one of the six methods, and the result is absent only for
\* a null or absent input.
C15_AlwaysClassified ==
    cout # Pending =>
        /\ cin.t = "string" => cout \in PaymentMethods
        /\ cout = Undefined => cin \in {Null, Undefined}

-----------------------------------------------------------------------------
(* Claims about cleanJsonMaybe, under SpecClean *)

\* C18: fence stripping is idempotent: stripping the stripped text gives the
\* stripped text again.
C18_StripIdempotent ==
    doc # Pending => doc = cout

\* text is a json fence, a line feed, inner, a line feed and a closing fence
IsFenced(text) ==
    /\ Len(text) >= Len(FenceOpen) + Len(FenceClose) + 2
    /\ HasPrefixAt(text, 1, FenceOpen \o <<"\n">>)
    /\ HasPrefixAt(text, Len(text) - Len(FenceClose), <<"\n">> \o FenceClose)

\* what stands between the leading and the trailing fence of a fenced text
InnerText(text) ==
    SubSeq(text, Len(FenceOpen) + 2, Len(text) - Len(FenceClose) - 1)

\* C19: fence stripping removes only a leading and a trailing fence: a text
\* without three backquotes in a row comes back trimmed and otherwise
\* unchanged, and of a fenced text the inner text comes back character for
\* character, triple backquotes inside it included.
C19_OnlyOuterFences ==
    cout # Pending =>
        /\ ~Includes(cin.v, FenceClose) => cout.v = Trim(cin.v)
        /\ (IsFenced(cin.v) /\ Trim(InnerText(cin.v)) = InnerText(cin.v)) =>
              cout.v = InnerText(cin.v)

-----------------------------------------------------------------------------
(***************************************************************************)
(* Authentication: authMiddleware (src/middleware/auth.ts), the route      *)
(* declarations of the routers mounted by server.ts, POST /api/auth/login  *)
(* and POST /api/auth/logout.                                              *)
(*                                                                         *)
(* A JWT is the record of what jwt.sign put into it and the key it was     *)
(* signed with; an Authorization header is its scheme and the token after  *)
(* the first space.  In this specification db holds, per user, one value   *)
(* standing for the rows with that user_id: a protected GET returns it, a  *)
(* protected POST/PUT/PATCH/DELETE replaces it by the request body.  What  *)
(* the individual handlers do to their tables is modelled in SpecBudgets   *)
(* and SpecReceipts below.                                                 *)
(***************************************************************************)
MaxClock == 2     \* the clock runs from 0 to MaxClock
MaxTokens == 1    \* successful logins

TokenLife == 1    \* expiresIn: "7d", in clock ticks

JWT_SECRET == "JWT_SECRET"

UserIds == {"u1", "u2"}

\* The users table: two registered accounts.
Accounts ==
    [u1 |-> [email |-> "ann@x", password |-> "pw-ann"],
     u2 |-> [email |-> "bob@x", password |-> "pw-bob"]]

NotAToken == [id |-> "-", exp |-> 0, key |-> "-"]

jwt_sign(id) == [id |-> id, exp |-> now + TokenLife, key |-> JWT_SECRET]

\* jwt.verify: the signature must have been made with the secret and the
\* token must not have reached its exp.
jwt_verify(token) ==
    IF token.key = JWT_SECRET /\ now < token.exp
    THEN [ok |-> TRUE, decoded |-> token.id]
    ELSE [ok |-> FALSE, decoded |-> "-"]

ForgedToken == [id |-> "u1", exp |-> MaxClock + TokenLife + 1, key |-> "guessed"]

NoHeader == [scheme |-> "", token |-> NotAToken]

\* The Authorization headers a client can send: none, another scheme, a
\* lower-case scheme, and Bearer with garbage, a forged or an issued token.
Headers ==
    {NoHeader}
    \cup {[scheme |-> s, token |-> t] : s \in {"Basic", "bearer"}, t \in tokens}
    \cup {[scheme |-> "Bearer", token |-> t] : t \in tokens \cup {ForgedToken, NotAToken}}

\* A response sent before any handler touched the database.
Answer(status, message) ==
    [status |-> status, message |-> message, ran |-> FALSE, user |-> "-", data |-> "-"]

\* An exchange: the request line, its Authorization header and the response.
Exchange(rt, header, res) == [rt |-> rt, header |-> header, res |-> res]

\* The same middleware, but decoding the token without verifying it.
authMiddleware_DecodeOnly(header) ==
    IF header = NoHeader \/ header.scheme # "Bearer"
    THEN [next |-> FALSE, user |-> "-", res |-> Answer(401, "Missing token")]
    ELSE IF header.token # NotAToken
         THEN [next |-> TRUE, user |-> header.token.id, res |-> Pending]
         ELSE [next |-> FALSE, user |-> "-",
               res |-> Answer(401, "Invalid or expired token")]

authMiddleware(header) ==
    IF header = NoHeader \/ header.scheme # "Bearer"
    THEN [next |-> FALSE, user |-> "-", res |-> Answer(401, "Missing token")]
    ELSE LET v == jwt_verify(header.token)
         IN  IF v.ok
             THEN [next |-> TRUE, user |-> v.decoded, res |-> Pending]
             ELSE [next |-> FALSE, user |-> "-",
                   res |-> Answer(401, "Invalid or expired token")]

Route(method, mount, path, auth) ==
    [method |-> method, mount |-> mount, path |-> path, auth |-> auth]

\* Every route the routers declare, with whether authMiddleware stands
\* before its handler.
AuthRoutes ==
    {Route("POST", "/api/auth", "/login", FALSE),
     Route("GET", "/api/auth", "/me", TRUE),
     Route("POST", "/api/auth", "/logout", TRUE)}

ProfileRoutes ==
    {Route("GET", "/api/profiles", "/me", TRUE),
     Route("PUT", "/api/profiles", "/me", TRUE)}

CategoryRoutes ==
    {Route("GET", "/api/categories", "/", TRUE),
     Route("POST", "/api/categories", "/", TRUE),
     Route("PUT", "/api/categories", "/:id", TRUE),
     Route("DELETE", "/api/categories", "/:id", TRUE)}

BudgetRoutes ==
    {Route("GET", "/api/budgets", "/", TRUE),
     Route("POST", "/api/budgets", "/", TRUE),
     Route("PUT", "/api/budgets", "/:id", TRUE),
     Route("DELETE", "/api/budgets", "/:id", TRUE)}

ReceiptRoutes ==
    {Route("GET", "/api/receipts", "/", TRUE),
     Route("POST", "/api/receipts", "/", TRUE),
     Route("PUT", "/api/receipts", "/:id", TRUE),
     Route("DELETE", "/api/receipts", "/:id", TRUE)}

NotificationRoutes ==
    {Route("GET", "/api/notifications", "/", TRUE),
     Route("PATCH", "/api/notifications", "/:id/read", TRUE),
     Route("DELETE", "/api/notifications", "/:id", TRUE)}

DashboardRoutes ==
    {Route("GET", "/api/dashboard", "/stats", TRUE),
     Route("GET", "/api/dashboard", "/category-spending", TRUE),
     Route("GET", "/api/dashboard", "/spending-over-time", TRUE),
     Route("GET", "/api/dashboard", "/insights", TRUE)}

Routes ==
    AuthRoutes \cup ProfileRoutes \cup CategoryRoutes \cup BudgetRoutes
    \cup ReceiptRoutes \cup NotificationRoutes \cup DashboardRoutes

LoginRoute == Route("POST", "/api/auth", "/login", FALSE)

LogoutRoute == Route("POST", "/api/auth", "/logout", TRUE)

Bodies == {"a", "b"}

InitAuth ==
    /\ db = [u \in UserIds |-> "a"]
    /\ tokens = {}
    /\ now = 0
    /\ out = Pending
    /\ calls = <<>>
    /\ cin = Null
    /\ cout = Pending
    /\ doc = Pending
    /\ analysis = Pending
    /\ pc = <<>>
    /\ req = <<>>
    /\ groqCalls = <<>>
    /\ groqArg = <<>>
    /\ reply = <<>>
    /\ response = <<>>

\* POST /api/auth/logout that also forgets the caller's rows.
logout_Forget(user) ==
    [res |-> [status |-> 204, message |-> "", ran |-> TRUE, user |-> user, data |-> "-"],
     db |-> [db EXCEPT ![user] = "-"]]

\* POST /api/auth/logout: res.status(204).send().
logout(user) ==
    [res |-> [status |-> 204, message |-> "", ran |-> TRUE, user |-> user, data |-> "-"],
     db |-> db]

\* A handler behind authMiddleware, run with req.user.id = user.
Handler(rt, user, body) ==
    IF rt = LogoutRoute
    THEN logout(user)
    ELSE IF rt.method = "GET"
    THEN [res |-> [status |-> 200, message |-> "", ran |-> TRUE, user |-> user,
                   data |-> db[user]],
          db |-> db]
    ELSE [res |-> [status |-> IF rt.method = "POST" THEN 201 ELSE 200, message |-> "",
                   ran |-> TRUE, user |-> user, data |-> body],
          db |-> [db EXCEPT ![user] = body]]

\* POST /api/auth/login.
Login(email, password) ==
    /\ Cardinality(tokens) < MaxTokens
    /\ LET found == {u \in UserIds : Accounts[u].email = email}
       IN  IF email = "" \/ password = ""
           THEN /\ out' = Exchange(LoginRoute, NoHeader,
                                      Answer(400, "Email and password required"))
                /\ UNCHANGED tokens
           ELSE IF found = {} \/ \A u \in found : Accounts[u].password # password
           THEN /\ out' = Exchange(LoginRoute, NoHeader,
                                      Answer(401, "Invalid credentials"))
                /\ UNCHANGED tokens
           ELSE LET u == CHOOSE u \in found : TRUE
                IN  /\ tokens' = tokens \cup {jwt_sign(u)}
                    /\ out' = Exchange(LoginRoute, NoHeader,
                                       [status |-> 200, message |-> "", ran |-> TRUE,
                                        user |-> u, data |-> "token"])
    /\ UNCHANGED <<db, now, calls>>
    /\ UNCHANGED aiVars

\* A request to a route other than login: Express runs the chain the route
\* was declared with.
Serve(rt, header, body) ==
    /\ rt # LoginRoute
    /\ LET mw == authMiddleware(header)
       IN  IF rt.auth /\ ~mw.next
           THEN /\ out' = Exchange(rt, header, mw.res)
                /\ UNCHANGED db
           ELSE LET h == Handler(rt, mw.user, body)
                IN  /\ out' = Exchange(rt, header, h.res)
                    /\ db' = h.db
    /\ UNCHANGED <<tokens, now, calls>>
    /\ UNCHANGED aiVars

Tick ==
    /\ now < MaxClock
    /\ now' = now + 1
    /\ UNCHANGED <<db, tokens, out, calls>>
    /\ UNCHANGED aiVars

NextAuth ==
    \/ \E email \in {"", "ann@x", "bob@x", "eve@x"}, password \in {"", "pw-ann", "pw-bob"} :
           Login(email, password)
    \/ \E rt \in Routes, header \in Headers, body \in Bodies : Serve(rt, header, body)
    \/ Tick

SpecAuth == InitAuth /\ [][NextAuth]_vars

-----------------------------------------------------------------------------
(* Claims about authentication, under SpecAuth *)

ProtectedMounts ==
    {"/api/receipts", "/api/categories", "/api/budgets", "/api/notifications",
     "/api/profiles", "/api/dashboard"}

ClaimedProtected(rt) ==
    \/ rt.mount \in ProtectedMounts
    \/ rt.mount = "/api/auth" /\ rt.path \in {"/me", "/logout"}

\* The header carries a token that jwt.verify accepts now.
ValidBearer(header) ==
    /\ header.scheme = "Bearer"
    /\ header.token \in tokens
    /\ now < header.token.exp

\* C22: a request to any route under /api/receipts, /api/categories,
\* /api/budgets, /api/notifications, /api/profiles, /api/dashboard, or to
\* /api/auth/me or /api/auth/logout, that carries no Authorization header, a
\* non-Bearer header, or an invalid or expired token is answered 401, its
\* handler does not run, and no stored row changes; and a handler that ran
\* ran for the user the token was issued to.
C22_AuthBeforeHandler ==
    [][(out' # Pending /\ now' = now /\ ClaimedProtected(out'.rt)) =>
          IF ValidBearer(out'.header)
          THEN out'.res.ran /\ out'.res.user = out'.header.token.id
          ELSE out'.res.status = 401 /\ ~out'.res.ran /\ db' = db]_vars

\* C22 witness: a request with an expired Bearer token was answered 401.
C22_Witness ==
    /\ out # Pending
    /\ out.header.scheme = "Bearer"
    /\ out.header.token \in tokens
    /\ out.res = Answer(401, "Invalid or expired token")

Accepted(token) == authMiddleware([scheme |-> "Bearer", token |-> token]).next

\* C30: POST /api/auth/logout answers 204 and changes no stored state and
\* no token; every issued token that has not expired is accepted by
\* authMiddleware in every reachable state, so also after any logout.
C30_LogoutNoOp ==
    /\ [](\A t \in tokens : now < t.exp => Accepted(t))
    /\ [][(out' # Pending /\ now' = now /\ out'.rt = LogoutRoute
            /\ ValidBearer(out'.header)) =>
                /\ out'.res.status = 204
                /\ db' = db
                /\ tokens' = tokens
                /\ \A t \in tokens : Accepted(t) => Accepted(t)']_vars

\* C30 witness: a logout was answered 204 and the token it was made with
\* is still accepted.
C30_Witness ==
    /\ out # Pending
    /\ out.rt = LogoutRoute
    /\ out.res.status = 204
    /\ Accepted(out.header.token)

-----------------------------------------------------------------------------
(***************************************************************************)
(* Categories and budgets: the handlers of src/routes/categories.ts and     *)
(* src/routes/budgets.ts over the categories and budgets tables of the     *)
(* initial migration, with its unique index and foreign keys.  Each action  *)
(* is a handler run by authMiddleware's next() with req.user.id = user.    *)
(* A request body is a record holding the fields it names.                  *)
(***************************************************************************)
MaxBudgets == 2    \* budgets created over a run

Year == 2025

Months == {1, 2}

Limits == {100, 200}

CategoryIds == {"c1", "c2"}

\* The tables after two registrations (one default category shown each).
InitialCategories ==
    {[id |-> "c1", user_id |-> "u1", name |-> "Food & Dining"],
     [id |-> "c2", user_id |-> "u2", name |-> "Food & Dining"]}

Has(body, field) == field \in DOMAIN body

\* data: { f: body.f ?? undefined, ... } applied to a row.
Patched(row, body) ==
    [f \in DOMAIN row |-> IF Has(body, f) THEN body[f] ELSE row[f]]

BudgetKey(b) == <<b.user_id, b.category_id, b.month, b.year>>

\* budgets_user_id_category_id_month_year_key
UniqueBudgetKeys(budgets) ==
    \A a, b \in budgets : BudgetKey(a) = BudgetKey(b) => a = b

\* budgets_category_id_fkey
BudgetForeignKeys(budgets, categories) ==
    \A b \in budgets : \E c \in categories : c.id = b.category_id

Sent(status, message) == [status |-> status, message |-> message]

InitBudgets ==
    /\ db = [categories |-> InitialCategories, budgets |-> {}, created |-> 0]
    /\ out = Pending
    /\ calls = <<>>
    /\ now = 0
    /\ tokens = {}
    /\ cin = Null
    /\ cout = Pending
    /\ doc = Pending
    /\ analysis = Pending
    /\ pc = <<>>
    /\ req = <<>>
    /\ groqCalls = <<>>
    /\ groqArg = <<>>
    /\ reply = <<>>
    /\ response = <<>>

\* The body of GET /api/budgets for a user: the user's budgets, each with
\* the name of the category it references.
BudgetList(user) ==
    {[id |-> b.id, user_id |-> b.user_id, category_id |-> b.category_id,
      month |-> b.month, year |-> b.year, monthly_limit |-> b.monthly_limit,
      category_name |-> (CHOOSE c \in db.categories : c.id = b.category_id).name] :
        b \in {x \in db.budgets : x.user_id = user}}

GetBudgets(user) ==
    /\ out' = Sent(200, "")
    /\ UNCHANGED <<db, calls, now, tokens>>
    /\ UNCHANGED aiVars

\* POST /api/budgets against a table without the unique index.
PostBudget_NoIndex(user, body) ==
    /\ db.created < MaxBudgets
    /\ LET row == [id |-> db.created + 1, user_id |-> user,
                   category_id |-> body.category_id, month |-> body.month,
                   year |-> body.year, monthly_limit |-> body.monthly_limit]
           budgets == db.budgets \cup {row}
       IN  IF ~BudgetForeignKeys(budgets, db.categories)
           THEN /\ out' = Sent(500, "Failed to create budget")
                /\ UNCHANGED db
           ELSE /\ out' = Sent(201, "")
                /\ db' = [db EXCEPT !.budgets = budgets, !.created = @ + 1]
    /\ UNCHANGED <<calls, now, tokens>>
    /\ UNCHANGED aiVars

\* POST /api/budgets: prisma.budget.create with the body's category_id; a
\* unique violation (P2002) is answered 409, any other error 500.
PostBudget(user, body) ==
    /\ db.created < MaxBudgets
    /\ LET row == [id |-> db.created + 1, user_id |-> user,
                   category_id |-> body.category_id, month |-> body.month,
                   year |-> body.year, monthly_limit |-> body.monthly_limit]
           budgets == db.budgets \cup {row}
       IN  IF ~BudgetForeignKeys(budgets, db.categories)
           THEN /\ out' = Sent(500, "Failed to create budget")
                /\ UNCHANGED db
           ELSE IF ~UniqueBudgetKeys(budgets)
           THEN /\ out' = Sent(409, "Budget already exists for this month/category")
                /\ UNCHANGED db
           ELSE /\ out' = Sent(201, "")
                /\ db' = [db EXCEPT !.budgets = budgets, !.created = @ + 1]
    /\ UNCHANGED <<calls, now, tokens>>
    /\ UNCHANGED aiVars

\* PUT /api/budgets/:id: updateMany where { id, user_id }; count 0 is
\* answered 404; a constraint violation throws and is answered 500.
PutBudget(user, id, body) ==
    /\ LET matched == {b \in db.budgets : b.id = id /\ b.user_id = user}
           budgets == (db.budgets \ matched) \cup {Patched(b, body) : b \in matched}
       IN  IF matched = {}
           THEN /\ out' = Sent(404, "Budget not found")
                /\ UNCHANGED db
           ELSE IF ~UniqueBudgetKeys(budgets) \/ ~BudgetForeignKeys(budgets, db.categories)
           THEN /\ out' = Sent(500, "Failed to update budget")
                /\ UNCHANGED db
           ELSE /\ out' = Sent(200, "")
                /\ db' = [db EXCEPT !.budgets = budgets]
    /\ UNCHANGED <<calls, now, tokens>>
    /\ UNCHANGED aiVars

\* DELETE /api/budgets/:id: deleteMany where { id, user_id }.
DeleteBudget(user, id) ==
    /\ LET matched == {b \in db.budgets : b.id = id /\ b.user_id = user}
       IN  IF matched = {}
           THEN /\ out' = Sent(404, "Budget not found")
                /\ UNCHANGED db
           ELSE /\ out' = Sent(200, "")
                /\ db' = [db EXCEPT !.budgets = @ \ matched]
    /\ UNCHANGED <<calls, now, tokens>>
    /\ UNCHANGED aiVars

\* PUT /api/categories/:id: updateMany where { id, user_id }.
PutCategory(user, id, body) ==
    /\ LET matched == {c \in db.categories : c.id = id /\ c.user_id = user}
       IN  IF matched = {}
           THEN /\ out' = Sent(404, "Category not found")
                /\ UNCHANGED db
           ELSE /\ out' = Sent(200, "")
                /\ db' = [db EXCEPT !.categories =
                             (@ \ matched) \cup {Patched(c, body) : c \in matched}]
    /\ UNCHANGED <<calls, now, tokens>>
    /\ UNCHANGED aiVars

\* DELETE /api/categories/:id: deleteMany where { id, user_id }; the
\* budgets that reference a deleted category go with it (ON DELETE CASCADE).
DeleteCategory(user, id) ==
    /\ LET matched == {c \in db.categories : c.id = id /\ c.user_id = user}
       IN  IF matched = {}
           THEN /\ out' = Sent(404, "Category not found")
                /\ UNCHANGED db
           ELSE /\ out' = Sent(200, "")
                /\ db' = [db EXCEPT !.categories = @ \ matched,
                                    !.budgets = {b \in @ : b.category_id # id}]
    /\ UNCHANGED <<calls, now, tokens>>
    /\ UNCHANGED aiVars

BudgetBodies ==
    [category_id : CategoryIds \cup {"c9"}, month : Months, year : {Year},
     monthly_limit : {100}]

BudgetPatches ==
    [monthly_limit : {200}] \cup [month : Months]
    \cup [category_id : CategoryIds \cup {"c9"}]
    \cup [category_id : CategoryIds, month : Months]

CategoryPatches == [name : {"Transport"}]

\* The requests to /api/budgets a client authenticated as user can make.
BudgetRequestBy(user) ==
    \/ GetBudgets(user)
    \/ \E body \in BudgetBodies : PostBudget(user, body)
    \/ \E id \in 1..(MaxBudgets + 1), body \in BudgetPatches : PutBudget(user, id, body)
    \/ \E id \in 1..(MaxBudgets + 1) : DeleteBudget(user, id)

NextBudgets == \E user \in UserIds : BudgetRequestBy(user)

\* The budgets router alone: the categories stay as registration made them.
SpecBudgets == InitBudgets /\ [][NextBudgets]_vars

\* The requests to /api/categories a client authenticated as user can make.
CategoryRequestBy(user) ==
    \/ \E id \in CategoryIds \cup {"c9"}, body \in CategoryPatches :
           PutCategory(user, id, body)
    \/ \E id \in CategoryIds \cup {"c9"} : DeleteCategory(user, id)

RequestBy(user) == BudgetRequestBy(user) \/ CategoryRequestBy(user)

NextCategories == \E user \in UserIds : RequestBy(user)

\* Both routers.
SpecCategories == InitBudgets /\ [][NextCategories]_vars

-----------------------------------------------------------------------------
(* Claims about categories and budgets: C21 and C23 under SpecCategories,    *)
(* C24 under SpecBudgets                                                    *)

\* C21: a row is changed or deleted only by a request authenticated as its
\* owner, and a request answered 404 leaves every row unchanged.
C21_OwnerOnlyWrites ==
    [][\A user \in UserIds :
          RequestBy(user) =>
              /\ \A b \in db.budgets : b \notin db'.budgets => b.user_id = user
              /\ \A c \in db.categories : c \notin db'.categories => c.user_id = user
              /\ out'.status = 404 => db' = db]_vars

\* C23: every budget GET /api/budgets returns to a user carries the name of
\* a category that this user owns.
C23_OwnCategoriesOnly ==
    \A user \in UserIds : \A row \in BudgetList(user) :
        \E c \in db.categories : c.id = row.category_id /\ c.user_id = user

KeyTaken(key, except) ==
    \E b \in db.budgets : b.id # except /\ BudgetKey(b) = key

\* C24: no two budgets share (user_id, category_id, month, year); a POST
\* for a key that a budget already has is answered 409 "Budget already
\* exists for this month/category" and a PUT that would give a budget the
\* key of another is answered with an error, both leaving the budgets table
\* as it was.
C24_UniqueBudgets ==
    /\ [](UniqueBudgetKeys(db.budgets))
    /\ [][\/ /\ out' = Sent(409, "Budget already exists for this month/category")
             /\ db' = db
          \/ ~\E user \in UserIds, body \in BudgetBodies :
                 /\ KeyTaken(<<user, body.category_id, body.month, body.year>>, 0)
                 /\ PostBudget(user, body)]_vars
    /\ [][\/ /\ out'.status >= 400
             /\ db' = db
          \/ ~\E user \in UserIds, id \in 1..MaxBudgets, body \in BudgetPatches :
                 /\ \E b \in db.budgets :
                        /\ b.id = id
                        /\ b.user_id = user
                        /\ KeyTaken(BudgetKey(Patched(b, body)), id)
                 /\ PutBudget(user, id, body)]_vars

\* C24 witness: a POST was answered 409 while the budget holding the key
\* is stored.
C24_Witness ==
    /\ out = Sent(409, "Budget already exists for this month/category")
    /\ db.budgets # {}

-----------------------------------------------------------------------------
(***************************************************************************)
(* PUT /api/receipts/:id (src/routes/receipts.ts) on one stored receipt    *)
(* with its item rows.  The request body is a record of JavaScript values, *)
(* a field the body does not name being undefined.  The stored items are    *)
(* the sequence GET /api/receipts returns for the receipt.                 *)
(***************************************************************************)
ScalarFields ==
    {"vendor_name", "purchase_date", "total_amount", "tax_amount", "currency",
     "payment_method", "category_id", "image_url", "notes", "ai_confidence"}

\* new Date(text) for the date texts of the model; any other text gives an
\* Invalid Date, which prisma refuses.
DateTexts == {<<"d", "1">>, <<"d", "2">>}

NewDate(text) ==
    IF text \in DateTexts
    THEN [t |-> "date", v |-> text[2]]
    ELSE [t |-> "date", v |-> "invalid"]

\* normalizePaymentMethod of receipts.ts: exact match on the lower-cased
\* text, "other" for everything else.
receiptsNormalizePaymentMethod(method) ==
    IF ~Truthy(method)
    THEN PM_other
    ELSE LET m == ToLowerCase(method.v)
         IN  CASE m = <<"c", "a", "s", "h">> -> PM_cash
               [] m \in {<<"c", "r", "e", "d", "i", "t", "_", "c", "a", "r", "d">>,
                         <<"c", "r", "e", "d", "i", "t", "-", "c", "a", "r", "d">>,
                         <<"c", "a", "r", "d">>} -> PM_credit_card
               [] m \in {<<"d", "e", "b", "i", "t", "_", "c", "a", "r", "d">>,
                         <<"d", "e", "b", "i", "t", "-", "c", "a", "r", "d">>} -> PM_debit_card
               [] m \in {<<"m", "o", "b", "i", "l", "e", "_", "p", "a", "y", "m", "e", "n", "t">>,
                         <<"m", "o", "b", "i", "l", "e", "-", "p", "a", "y", "m", "e", "n", "t">>,
                         <<"m", "o", "b", "i", "l", "e">>} -> PM_mobile_payment
               [] m \in {<<"b", "a", "n", "k", "_", "t", "r", "a", "n", "s", "f", "e", "r">>,
                         <<"b", "a", "n", "k", "-", "t", "r", "a", "n", "s", "f", "e", "r">>,
                         <<"t", "r", "a", "n", "s", "f", "e", "r">>} -> PM_bank_transfer
               [] OTHER -> PM_other

\* The receipt r1 of user u1 as POST /api/receipts stored it.
StoredReceipt ==
    [id |-> "r1", user_id |-> "u1",
     vendor_name |-> Str(<<"A">>),
     purchase_date |-> NewDate(<<"d", "1">>),
     total_amount |-> Whole(10),
     tax_amount |-> Whole(0),
     currency |-> Str(<<"U", "S", "D">>),
     payment_method |-> PM_cash,
     category_id |-> Null,
     image_url |-> Null,
     notes |-> Null,
     ai_confidence |-> Null]

ItemRow(name, quantity, unit_price, total) ==
    [name |-> name, quantity |-> quantity, unit_price |-> unit_price, total |-> total]

\* Item inputs: one with a quantity, one without.
ItemInputs ==
    {ItemRow(Str(<<"t", "e", "a">>), Whole(2), Whole(3), Whole(6)),
     ItemRow(Str(<<"b", "u", "n">>), Undefined, Whole(4), Whole(4))}

ItemLists == UNION {[1..n -> ItemInputs] : n \in 0..MaxItems}

\* items.map((i) => ({ ..., quantity: i.quantity ?? 1, ... }))
CreatedItems(items) ==
    [k \in 1..Len(items) |->
        ItemRow(items[k].name, Coalesce(items[k].quantity, Whole(1)),
                items[k].unit_price, items[k].total)]

NoBody ==
    [vendor_name |-> Undefined, purchase_date |-> Undefined, total_amount |-> Undefined,
     tax_amount |-> Undefined, currency |-> Undefined, payment_method |-> Undefined,
     category_id |-> Undefined, image_url |-> Undefined, notes |-> Undefined,
     ai_confidence |-> Undefined, items |-> Undefined]

\* What a body may carry in a field, besides nothing.
FieldInputs(f) ==
    {Undefined, Null} \cup
    CASE f = "vendor_name" -> {Str(<<"B">>), Str(<<>>)}
      [] f = "purchase_date" -> {Str(<<"d", "2">>), Str(<<>>), Str(<<"x">>)}
      [] f = "total_amount" -> {Whole(20), Whole(0)}
      [] f = "tax_amount" -> {Whole(2)}
      [] f = "currency" -> {Str(<<"E", "U", "R">>)}
      [] f = "payment_method" -> {Str(<<"C", "a", "r", "d">>), Str(<<"b", "t", "c">>),
                                  Str(<<>>), Whole(5)}
      [] f = "category_id" -> {Str(<<"c", "1">>), Str(<<"c", "9">>)}
      [] f = "image_url" -> {Str(<<"u">>)}
      [] f = "notes" -> {Str(<<"n">>), Str(<<>>)}
      [] f = "ai_confidence" -> {Dec(9, -1)}

ItemsInputs ==
    {Undefined, Null, Str(<<"x">>)} \cup {Arr(l) : l \in ItemLists}

\* Bodies naming up to two scalar fields, with or without items.
ReceiptBodies ==
    UNION {UNION {{[NoBody EXCEPT ![f] = v, ![g] = w, !.items = i] :
                      v \in FieldInputs(f), w \in FieldInputs(g), i \in ItemsInputs} :
                  g \in {"notes", "category_id"}} :
           f \in ScalarFields}

ReceiptIds == {"r1", "r9"}

\* The categories table: c1 exists, c9 does not.
StoredCategoryIds == {Str(<<"c", "1">>)}

\* The item rows r1 may have before the request.
StoredItemLists ==
    {<<>>, <<ItemRow(Str(<<"o", "l", "d">>), Whole(1), Whole(5), Whole(5))>>}

InitReceipts ==
    /\ db \in {[receipt |-> StoredReceipt, items |-> l, categories |-> StoredCategoryIds] :
                  l \in StoredItemLists}
    /\ out = Pending
    /\ calls = Pending
    /\ now = 0
    /\ tokens = {}
    /\ cin = Null
    /\ cout = Pending
    /\ doc = Pending
    /\ analysis = Pending
    /\ pc = <<>>
    /\ req = <<>>
    /\ groqCalls = <<>>
    /\ groqArg = <<>>
    /\ reply = <<>>
    /\ response = <<>>

\* The data object of tx.receipt.update.
UpdateData(body) ==
    [vendor_name |-> Coalesce(body.vendor_name, Undefined),
     purchase_date |-> IF Truthy(body.purchase_date)
                       THEN NewDate(body.purchase_date.v) ELSE Undefined,
     total_amount |-> Coalesce(body.total_amount, Undefined),
     tax_amount |-> Coalesce(body.tax_amount, Undefined),
     currency |-> Coalesce(body.currency, Undefined),
     payment_method |-> IF Truthy(body.payment_method)
                        THEN receiptsNormalizePaymentMethod(body.payment_method)
                        ELSE Undefined,
     category_id |-> Coalesce(body.category_id, Undefined),
     image_url |-> Coalesce(body.image_url, Undefined),
     notes |-> Coalesce(body.notes, Undefined),
     ai_confidence |-> Coalesce(body.ai_confidence, Undefined)]

\* prisma leaves a column alone when its data value is undefined.
UpdatedRow(row, data) ==
    [f \in DOMAIN row |->
        IF f \in DOMAIN data /\ data[f] # Undefined THEN data[f] ELSE row[f]]

\* Building the data throws (method.toLowerCase is not a function), or
\* prisma refuses it: an Invalid Date, or a category_id that no category has.
UpdateFails(body) ==
    \/ Truthy(body.payment_method) /\ body.payment_method.t # "string"
    \/ Truthy(body.purchase_date) /\ NewDate(body.purchase_date.v).v = "invalid"
    \/ ~Nullish(body.category_id) /\ body.category_id \notin db.categories

\* createMany without the deleteMany before it.
ReplacedItems_Append(stored, items) ==
    IF Len(items) > 0 THEN stored \o CreatedItems(items) ELSE stored

\* deleteMany({ where: { receipt_id } }), then createMany when items is
\* not empty.
ReplacedItems(stored, items) ==
    LET afterDelete == SubSeq(stored, 1, 0)
    IN  IF Len(items) > 0 THEN afterDelete \o CreatedItems(items) ELSE afterDelete

\* PUT /api/receipts/:id: findFirst where { id, user_id }, then in one
\* transaction the update of the receipt and, when body.items is an array,
\* the replacement of its items.  An error rolls the transaction back.
PutReceipt(user, id, body) ==
    /\ out = Pending
    /\ calls' = [user |-> user, id |-> id, body |-> body]
    /\ IF ~(db.receipt.id = id /\ db.receipt.user_id = user)
       THEN /\ out' = Sent(404, "Receipt not found")
            /\ UNCHANGED db
       ELSE IF UpdateFails(body)
       THEN /\ out' = Sent(500, "Failed to update receipt")
            /\ UNCHANGED db
       ELSE /\ out' = Sent(200, "")
            /\ db' = [db EXCEPT
                         !.receipt = UpdatedRow(@, UpdateData(body)),
                         !.items = IF body.items.t = "array"
                                   THEN ReplacedItems(@, body.items.v) ELSE @]
    /\ UNCHANGED <<now, tokens>>
    /\ UNCHANGED aiVars

NextReceipts ==
    \E user \in UserIds, id \in ReceiptIds, body \in ReceiptBodies :
        PutReceipt(user, id, body)

SpecReceipts == InitReceipts /\ [][NextReceipts]_vars

-----------------------------------------------------------------------------
(* Claims about PUT /api/receipts/:id, under SpecReceipts *)

\* The stored items are the supplied ones, a missing quantity stored as 1.
ItemsAre(stored, supplied) ==
    /\ Len(stored) = Len(supplied)
    /\ \A k \in 1..Len(supplied) :
           /\ stored[k].name = supplied[k].name
           /\ stored[k].unit_price = supplied[k].unit_price
           /\ stored[k].total = supplied[k].total
           /\ stored[k].quantity =
                  IF supplied[k].quantity = Undefined THEN Whole(1) ELSE supplied[k].quantity

-----------------------------------------------------------------------------
(***************************************************************************)
(* Two concurrent PUT /api/receipts/:id requests with items arrays on the  *)
(* same receipt, statement by statement, and concurrent GET /api/receipts. *)
(*                                                                         *)
(* prisma.$transaction(async (tx) => ...) runs its statements in one       *)
(* PostgreSQL transaction at the default isolation level, READ COMMITTED:  *)
(* every statement sees the rows committed when it starts and the          *)
(* transaction's own changes; an UPDATE or DELETE locks the rows it        *)
(* changes until the transaction ends, and waits for a row that another    *)
(* transaction has locked.  tx.receipt.update with a data object whose     *)
(* fields are all undefined has nothing to write and only reads the row.   *)
(*                                                                         *)
(* db.items holds the committed item rows of the receipt, db.lock the      *)
(* request whose transaction holds the lock on the receipts row (0: none). *)
(***************************************************************************)
Puts == {1, 2}

\* The item rows each request supplies, and those stored before.
SuppliedItems(r) == IF r = 1 THEN {"a1", "a2"} ELSE {"b1", "b2"}

OriginalItems == {{}, {"o1", "o2"}}

\* Bodies: items alone, or items and notes.
ItemsBodies == {[notes |-> FALSE], [notes |-> TRUE]}

IdleCall ==
    [pc |-> "idle", notes |-> FALSE, snapshot |-> {}, deleted |-> {}, inserted |-> {}]

InitItems ==
    /\ \E o \in OriginalItems : db = [items |-> o, original |-> o, lock |-> 0]
    /\ calls = [r \in Puts |-> IdleCall]
    /\ out = Pending
    /\ now = 0
    /\ tokens = {}
    /\ cin = Null
    /\ cout = Pending
    /\ doc = Pending
    /\ analysis = Pending
    /\ pc = <<>>
    /\ req = <<>>
    /\ groqCalls = <<>>
    /\ groqArg = <<>>
    /\ reply = <<>>
    /\ response = <<>>

\* The request arrives, findFirst finds the caller's receipt and the
\* transaction begins.
BeginPut(r, body) ==
    /\ calls[r].pc = "idle"
    /\ calls' = [calls EXCEPT ![r] = [@ EXCEPT !.pc = "begun", !.notes = body.notes]]
    /\ UNCHANGED <<db, out, now, tokens>>
    /\ UNCHANGED aiVars

\* tx.receipt.update: with a field to write it updates the receipts row,
\* waiting for the row lock and keeping it; with none it reads the row.
TxUpdate(r) ==
    /\ calls[r].pc = "begun"
    /\ IF calls[r].notes
       THEN /\ db.lock = 0
            /\ db' = [db EXCEPT !.lock = r]
       ELSE UNCHANGED db
    /\ calls' = [calls EXCEPT ![r].pc = "updated"]
    /\ UNCHANGED <<out, now, tokens>>
    /\ UNCHANGED aiVars

\* tx.receiptItem.deleteMany starts: the statement sees the committed rows.
TxDeleteStart(r) ==
    /\ calls[r].pc = "updated"
    /\ calls' = [calls EXCEPT ![r] = [@ EXCEPT !.pc = "deleting", !.snapshot = db.items]]
    /\ UNCHANGED <<db, out, now, tokens>>
    /\ UNCHANGED aiVars

\* The rows of the snapshot that another open transaction has deleted.
LockedByOther(r) ==
    UNION {calls[q].deleted : q \in Puts \ {r}} \cap calls[r].snapshot

\* deleteMany finishes once no row it saw is locked by another transaction;
\* it deletes the rows it saw that still exist.
TxDeleteFinish(r) ==
    /\ calls[r].pc = "deleting"
    /\ LockedByOther(r) = {}
    /\ calls' = [calls EXCEPT ![r] = [@ EXCEPT !.pc = "deleted",
                                                !.deleted = calls[r].snapshot \cap db.items]]
    /\ UNCHANGED <<db, out, now, tokens>>
    /\ UNCHANGED aiVars

\* tx.receiptItem.createMany of the supplied items.
TxCreate(r) ==
    /\ calls[r].pc = "deleted"
    /\ calls' = [calls EXCEPT ![r] = [@ EXCEPT !.pc = "created",
                                                !.inserted = SuppliedItems(r)]]
    /\ UNCHANGED <<db, out, now, tokens>>
    /\ UNCHANGED aiVars

\* The callback returns: COMMIT makes the transaction's deletes and inserts
\* visible at once and releases its locks; res.json(updated).
Commit(r) ==
    /\ calls[r].pc = "created"
    /\ db' = [db EXCEPT !.items = (@ \ calls[r].deleted) \cup calls[r].inserted,
                        !.lock = IF @ = r THEN 0 ELSE @]
    /\ calls' = [calls EXCEPT ![r] = [@ EXCEPT !.pc = "done", !.deleted = {},
                                                !.inserted = {}, !.snapshot = {}]]
    /\ UNCHANGED <<out, now, tokens>>
    /\ UNCHANGED aiVars

\* GET /api/receipts: findMany with include items reads the committed rows.
GetReceipts ==
    /\ out' = [status |-> 200, items |-> db.items]
    /\ UNCHANGED <<db, calls, now, tokens>>
    /\ UNCHANGED aiVars

NextItems ==
    \/ \E r \in Puts, body \in ItemsBodies : BeginPut(r, body)
    \/ \E r \in Puts :
           TxUpdate(r) \/ TxDeleteStart(r) \/ TxDeleteFinish(r) \/ TxCreate(r) \/ Commit(r)
    \/ GetReceipts

SpecItems == InitItems /\ [][NextItems]_vars

-----------------------------------------------------------------------------
(* Claims about the replacement of items, under SpecItems *)

CompleteLists == {db.original} \cup {SuppliedItems(r) : r \in Puts}

\* C26: the stored items of the receipt, and the items any GET observes,
\* are the complete list of one of the two requests or the original list,
\* never a mixture.
C26_AtomicReplacement ==
    /\ db.items \in CompleteLists
    /\ out # Pending => out.items \in CompleteLists

-----------------------------------------------------------------------------
(***************************************************************************)
(* POST /api/auth/register (src/routes/auth.ts), two requests at a time.   *)
(* The handler awaits findUnique, then bcrypt.hash, then user.create; the  *)
(* other request can run between any two of them.  user.create inserts the *)
(* user, its profile and its default categories in one statement group     *)
(* that the unique index users_email_key rejects as a whole.               *)
(***************************************************************************)
Registrations == {1, 2}

RegisterBodies ==
    [email : {"", "ann@x", "bob@x"}, password : {"", "pw"}]

\* The users table before: empty, or ann@x registered.
InitialUsers == {{}, {[id |-> "u0", email |-> "ann@x"]}}

NewUserId(r) == IF r = 1 THEN "u1" ELSE "u2"

\* users_email_key
UniqueEmails(users) == \A a, b \in users : a.email = b.email => a = b

InitRegister ==
    /\ \E users \in InitialUsers :
           db = [users |-> users,
                 profiles |-> {u.id : u \in users},
                 categories |-> {[user_id |-> u.id, name |-> "Food & Dining"] : u \in users}]
    /\ calls = [r \in Registrations |->
                   [pc |-> "idle", body |-> [email |-> "", password |-> ""], res |-> Pending]]
    /\ out = Pending
    /\ now = 0
    /\ tokens = {}
    /\ cin = Null
    /\ cout = Pending
    /\ doc = Pending
    /\ analysis = Pending
    /\ pc = <<>>
    /\ req = <<>>
    /\ groqCalls = <<>>
    /\ groqArg = <<>>
    /\ reply = <<>>
    /\ response = <<>>

\* The request arrives: 400 without email or password, else findUnique by
\* email: 409 when a user has it, else on to bcrypt.hash.
Register(r, body) ==
    /\ calls[r].pc = "idle"
    /\ calls' = [calls EXCEPT ![r] =
           IF body.email = "" \/ body.password = ""
           THEN [pc |-> "done", body |-> body,
                 res |-> Sent(400, "Email and password required")]
           ELSE IF \E u \in db.users : u.email = body.email
           THEN [pc |-> "done", body |-> body, res |-> Sent(409, "Email already in use")]
           ELSE [pc |-> "hashing", body |-> body, res |-> Pending]]
    /\ UNCHANGED <<db, out, now, tokens>>
    /\ UNCHANGED aiVars

\* bcrypt.hash resolved: prisma.user.create with the nested profile and
\* categories; 201 with a token, or the catch block's 500 when it throws.
CreateUser(r) ==
    /\ calls[r].pc = "hashing"
    /\ LET user == [id |-> NewUserId(r), email |-> calls[r].body.email]
       IN  IF ~UniqueEmails(db.users \cup {user})
           THEN /\ calls' = [calls EXCEPT ![r] = [@ EXCEPT !.pc = "done",
                                 !.res = Sent(500, "Registration failed")]]
                /\ UNCHANGED db
           ELSE /\ db' = [users |-> db.users \cup {user},
                          profiles |-> db.profiles \cup {user.id},
                          categories |-> db.categories \cup
                              {[user_id |-> user.id, name |-> "Food & Dining"]}]
                /\ calls' = [calls EXCEPT ![r] = [@ EXCEPT !.pc = "done",
                                 !.res = Sent(201, "")]]
    /\ UNCHANGED <<out, now, tokens>>
    /\ UNCHANGED aiVars

NextRegister ==
    \E r \in Registrations :
        \/ \E body \in RegisterBodies : Register(r, body)
        \/ CreateUser(r)

SpecRegister == InitRegister /\ [][NextRegister]_vars

-----------------------------------------------------------------------------
(* Claims about registration, under SpecRegister *)

\* C27: no two users share an email, and a registration with email and
\* password that did not create the user is answered 409 "Email already in
\* use".
C27_OneUserPerEmail ==
    /\ UniqueEmails(db.users)
    /\ \A r \in Registrations :
           (/\ calls[r].pc = "done"
            /\ calls[r].body.email # ""
            /\ calls[r].body.password # ""
            /\ calls[r].res.status # 201) =>
               calls[r].res = Sent(409, "Email already in use")

-----------------------------------------------------------------------------
(***************************************************************************)
(* GET /api/dashboard/stats and GET /api/dashboard/spending-over-time      *)
(* (src/routes/dashboard.ts) over the receipts of the caller.              *)
(*                                                                         *)
(* A Date is an instant, counted in ticks; every month has TicksPerMonth   *)
(* ticks, the first being its first millisecond and the last its last.     *)
(* new Date(y, m, ...) carries a month outside 0..11 into the year, as     *)
(* JavaScript does.  Amounts are whole numbers.                            *)
(***************************************************************************)
MaxReceipts == 2    \* receipts of the caller

TicksPerMonth == 3

\* new Date(year, month, 1, 0, 0, 0, 0) plus tick ticks
DateOf(year, month, tick) == (year * 12 + month) * TicksPerMonth + tick

getFullYear(d) == (d \div TicksPerMonth) \div 12

getMonth(d) == (d \div TicksPerMonth) % 12

startOfMonth(d) == DateOf(getFullYear(d), getMonth(d), 0)

\* new Date(y, m + 1, 0, 23, 59, 59, 999): the last instant of the month
endOfMonth(d) == DateOf(getFullYear(d), getMonth(d) + 1, 0) - 1

\* where: { OR: [{ purchase_date: { gte, lte } }, { created_at: { gte, lte } }] }
receiptDateRangeFilter(r, start, end) ==
    \/ start <= r.purchase_date /\ r.purchase_date <= end
    \/ start <= r.created_at /\ r.created_at <= end

\* The rows of a sequence that satisfy a where clause, in order.
RECURSIVE FindMany(_, _, _)
FindMany(rows, start, end) ==
    IF rows = <<>>
    THEN <<>>
    ELSE (IF receiptDateRangeFilter(Head(rows), start, end) THEN <<Head(rows)>> ELSE <<>>)
         \o FindMany(Tail(rows), start, end)

\* _sum: { total_amount: true }
RECURSIVE SumAmount(_)
SumAmount(rows) ==
    IF rows = <<>> THEN 0 ELSE Head(rows).total_amount + SumAmount(Tail(rows))

\* The clock readings of the model: mid January, June and December 2025.
NowChoices == {DateOf(2025, m, 1) : m \in {0, 5, 11}}

\* Instants around the ranges the two routes use, relative to the clock.
PurchaseDates(clock) ==
    LET y == getFullYear(clock)
        m == getMonth(clock)
    IN  {DateOf(y, m - 11, 0) - 1, DateOf(y, m - 11, 0), DateOf(y, m - 1, TicksPerMonth - 1),
         DateOf(y, m, 0), DateOf(y, m, TicksPerMonth - 1)}

CreationDates(clock) ==
    LET y == getFullYear(clock)
        m == getMonth(clock)
    IN  {DateOf(y, m - 12, 1), DateOf(y, m - 11, 0), clock}

ReceiptRows(clock) ==
    [purchase_date : PurchaseDates(clock), created_at : CreationDates(clock)]

\* The receipts table: up to MaxReceipts rows of the caller, the k-th with
\* total_amount 10 * k.
ReceiptTables(clock) ==
    UNION {{[k \in 1..n |-> [purchase_date |-> f[k].purchase_date,
                             created_at |-> f[k].created_at,
                             total_amount |-> 10 * k]] :
               f \in [1..n -> ReceiptRows(clock)]} :
           n \in 0..MaxReceipts}

InitDashboard ==
    /\ now \in NowChoices
    /\ db \in ReceiptTables(now)
    /\ out = Pending
    /\ calls = <<>>
    /\ tokens = {}
    /\ cin = Null
    /\ cout = Pending
    /\ doc = Pending
    /\ analysis = Pending
    /\ pc = <<>>
    /\ req = <<>>
    /\ groqCalls = <<>>
    /\ groqArg = <<>>
    /\ reply = <<>>
    /\ response = <<>>

\* GET /api/dashboard/stats.  comparedToLastMonth is kept as the two totals
\* it is computed from; the counts by week and by image are left out.
GetStats ==
    /\ LET thisMonth == FindMany(db, startOfMonth(now), endOfMonth(now))
           lastMonth == DateOf(getFullYear(now), getMonth(now) - 1, 1)
           lastMonthTotal ==
               SumAmount(FindMany(db, startOfMonth(lastMonth), endOfMonth(lastMonth)))
       IN  out' = [route |-> "stats",
                   totalSpentThisMonth |-> SumAmount(thisMonth),
                   totalReceiptsThisMonth |-> Len(thisMonth),
                   lastMonthTotal |-> lastMonthTotal,
                   data |-> <<>>]
    /\ UNCHANGED <<db, now, calls, tokens>>
    /\ UNCHANGED aiVars

\* `${d.getFullYear()}-${String(d.getMonth() + 1).padStart(2, "0")}`
MonthKey(d) == <<getFullYear(d), getMonth(d) + 1>>

\* The date a receipt is added under, always its purchase_date.
AttributedDate_PurchaseOnly(r, twelveMonthsAgo, clock) == r.purchase_date

\* The date a receipt is added under: purchase_date inside the window,
\* otherwise created_at.
AttributedDate(r, twelveMonthsAgo, clock) ==
    IF twelveMonthsAgo <= r.purchase_date /\ r.purchase_date <= clock
    THEN r.purchase_date
    ELSE r.created_at

\* totals[key] after the loop over the receipts
RECURSIVE TotalFor(_, _, _, _)
TotalFor(key, rows, twelveMonthsAgo, clock) ==
    IF rows = <<>>
    THEN 0
    ELSE (IF MonthKey(AttributedDate(Head(rows), twelveMonthsAgo, clock)) = key
          THEN Head(rows).total_amount ELSE 0)
         + TotalFor(key, Tail(rows), twelveMonthsAgo, clock)

\* GET /api/dashboard/spending-over-time.
GetSpendingOverTime ==
    /\ LET twelveMonthsAgo == DateOf(getFullYear(now), getMonth(now) - 11, 0)
           receipts == FindMany(db, twelveMonthsAgo, now)
           monthOf(i) == MonthKey(DateOf(getFullYear(twelveMonthsAgo),
                                         getMonth(twelveMonthsAgo) + i, 0))
       IN  out' = [route |-> "spending-over-time",
                   totalSpentThisMonth |-> 0,
                   totalReceiptsThisMonth |-> 0,
                   lastMonthTotal |-> 0,
                   data |-> [i \in 1..12 |->
                                [month |-> monthOf(i - 1),
                                 total |-> TotalFor(monthOf(i - 1), receipts,
                                                    twelveMonthsAgo, now)]]]
    /\ UNCHANGED <<db, now, calls, tokens>>
    /\ UNCHANGED aiVars

NextDashboard == GetStats \/ GetSpendingOverTime

SpecDashboard == InitDashboard /\ [][NextDashboard]_vars

-----------------------------------------------------------------------------
(* Claims about the dashboard, under SpecDashboard *)

\* The calendar month of an instant, counted from year 0.
MonthIndex(d) == d \div TicksPerMonth

RECURSIVE SumOver(_, _)
SumOver(S, amount) ==
    IF S = {} THEN 0
    ELSE LET x == CHOOSE x \in S : TRUE IN amount[x] + SumOver(S \ {x}, amount)

\* C28: no receipt is counted both in totalSpentThisMonth and in the
\* last-month total of GET /api/dashboard/stats: the two totals together
\* are at most the sum over the receipts that have a date in one of the two
\* months, each counted once.
C28_OneMonthPerReceipt ==
    (out # Pending /\ out.route = "stats") =>
        LET amount == [k \in 1..Len(db) |-> db[k].total_amount]
            months == {MonthIndex(now) - 1, MonthIndex(now)}
            dated == {k \in 1..Len(db) :
                         \/ MonthIndex(db[k].purchase_date) \in months
                         \/ MonthIndex(db[k].created_at) \in months}
        IN  out.totalSpentThisMonth + out.lastMonthTotal <= SumOver(dated, amount)

\* The receipts the 12-month window filter selects.
InWindow(d) == MonthIndex(now) - 11 <= MonthIndex(d) /\ d <= now

Selected == {k \in 1..Len(db) : InWindow(db[k].purchase_date) \/ InWindow(db[k].created_at)}

\* C29: GET /api/dashboard/spending-over-time returns 12 entries for the 12
\* consecutive calendar months ending with the current one; each entry's
\* total is the sum over the selected receipts whose month is the entry's,
\* a receipt's month being that of its purchase_date when it lies in the
\* window and else that of its created_at, which then lies in the window;
\* so the 12 totals add up to the sum over the selected receipts.
C29_TwelveMonths ==
    (out # Pending /\ out.route = "spending-over-time") =>
        LET amount == [k \in 1..Len(db) |-> db[k].total_amount]
            monthOf(k) == IF InWindow(db[k].purchase_date)
                          THEN MonthIndex(db[k].purchase_date)
                          ELSE MonthIndex(db[k].created_at)
            total == [i \in 1..12 |-> out.data[i].total]
        IN  /\ Len(out.data) = 12
            /\ \A i \in 1..12 :
                   /\ out.data[i].month[1] * 12 + out.data[i].month[2] - 1
                          = MonthIndex(now) - 12 + i
                   /\ out.data[i].month[2] \in 1..12
                   /\ out.data[i].total =
                          SumOver({k \in Selected : monthOf(k) = MonthIndex(now) - 12 + i},
                                  amount)
            /\ \A k \in Selected :
                   /\ monthOf(k) \in (MonthIndex(now) - 11)..MonthIndex(now)
                   /\ ~InWindow(db[k].purchase_date) => InWindow(db[k].created_at)
            /\ SumOver(1..12, total) = SumOver(Selected, amount)

\* C29 witness: the window spans two years, and a receipt bought before the
\* window but created in it is counted under its creation month.
C29_Witness ==
    /\ out # Pending
    /\ out.route = "spending-over-time"
    /\ out.data[1].month[1] # out.data[12].month[1]
    /\ \E k \in Selected :
           /\ ~InWindow(db[k].purchase_date)
           /\ db[k].created_at = now
           /\ out.data[12].total >= db[k].total_amount

====
